---- MODULE Spec2Model ----
(***************************************************************************)
(* Model of the SST ticketing agent: hybrid retrieval (app_5_RAG.py), the  *)
(* constrained classifier and the flow orchestrator (app_5_LLM.py) and     *)
(* the Streamlit session that drives them (app_5_streamlit.py).            *)
(*                                                                         *)
(* Python strings are TLA+ strings.  A Python exception is an outcome      *)
(* record with raised = TRUE.  Text the generator returns is a sequence of *)
(* tokens (braces, other text, object members) that json_loads decodes.    *)
(***************************************************************************)
EXTENDS Integers, Sequences, FiniteSets, TLC

VARIABLES
    pc,                       \* which specification's harness the model runs
    page,                     \* st.session_state.page
    session_keys,             \* the keys present in st.session_state
    FIRST_PASS_DONE,          \* st.session_state.FIRST_PASS_DONE (FALSE while absent)
    request_type,             \* st.session_state.request_type (the chosen label)
    request_description,      \* st.session_state.request_description
    original_request_description,
    master_llm_result,        \* st.session_state.master_llm_result / last MasterLLMResult
    master_flow_result,       \* st.session_state.master_flow_result / last decision
    master_flow_orchestrator_action,
    record_id,                \* st.session_state.record_id ("" while absent)
    chat_history,             \* st.session_state.chat_history
    final_updates_done,       \* st.session_state.final_updates_done
    airtable,                 \* the ticket record of the store
    airtable_calls,           \* the write requests issued to the store, in order
    notices,                  \* st.error / warning / success / info of the last script run
    env,                      \* what the collaborators answered in the last call
    last_call,                \* outcome of the last master_llm / orchestrator call
    history,                  \* counts over the master_llm invocations of the session and
                              \* the label of the last result master_llm returned
    last_turn,                \* what the last script run was given and which calls it made
    rag_pc,                   \* where master_rag's calling thread stands
    future_semantic,          \* the future of rag_retrieve_semantic
    future_keyword,           \* the future of rag_retrieve_keyword
    semantic_result,          \* master_rag's local semantic_chunks
    keyword_result,           \* master_rag's local keyword_chunks
    RAG_result,               \* what master_rag returned, or that it raised
    finish_order              \* the readers in the order in which their futures finished

vars == <<pc, page, session_keys, FIRST_PASS_DONE, request_type, request_description,
          original_request_description, master_llm_result, master_flow_result,
          master_flow_orchestrator_action, record_id, chat_history, final_updates_done,
          airtable, airtable_calls, notices, env, last_call, history, last_turn,
          rag_pc, future_semantic, future_keyword, semantic_result, keyword_result,
          RAG_result, finish_order>>

\* The state of one master_rag call.
rag_vars == <<rag_pc, future_semantic, future_keyword, semantic_result, keyword_result,
              RAG_result, finish_order>>

\* The session and store state the classifier and the orchestrator never touch.
ui_vars == <<original_request_description, master_flow_orchestrator_action, record_id,
             chat_history, final_updates_done, airtable, airtable_calls, notices, last_turn>>

(***************************************************************************)
(* Program constants                                                       *)
(***************************************************************************)
TICKET_CATEGORIES ==
    << "Make New Package",
       "Publish Artwork to Platform",
       "Change Existing Image Assets",
       "Add Missing Image Assets" >>

USER_UNSURE == "I'm Unsure - Described in Request Section"

LLM_JSON_ERROR == "LLM JSON ERROR"

LLM_CATEGORIZATION_ERROR == "LLM CATEGORIZATION ERROR"

(***************************************************************************)
(* Bounds of the model                                                     *)
(***************************************************************************)
MaxConfidence == 100
MaxChunks == 2
MaxCalls == 2
MaxTurns == 2
MaxListLen == 2
MaxRows == 4
MaxTopK == 1

(***************************************************************************)
(* Python helpers                                                          *)
(***************************************************************************)
\* x in list
InList(x, l) == \E i \in 1..Len(l) : l[i] = x

\* The strings of the model that carry no surrounding whitespace.
StringCores ==
    { TICKET_CATEGORIES[i] : i \in 1..Len(TICKET_CATEGORIES) }
        \cup { LLM_JSON_ERROR, LLM_CATEGORIZATION_ERROR, USER_UNSURE,
               "", "Something Else", "make new package", "61", "87", "high",
               "Summary of the chosen type",
               "yes", "no", "unrelated", "question", "more context", "maybe",
               "Packages group episodes." }

\* A string with whitespace put around it.
Padded(c) == { c, " " \o c, c \o " ", " " \o c \o " " }

\* str.strip(): the string without its leading and trailing whitespace.
py_strip(s) ==
    IF \E c \in StringCores : s \in Padded(c)
    THEN CHOOSE c \in StringCores : s \in Padded(c)
    ELSE s

\* Strings of the model that hold upper-case letters, with their lower-case form.
LowerCased ==
    { <<"Make New Package", "make new package">>,
      <<"Yes", "yes">>, <<"NO", "no">>, <<"Question", "question">>,
      <<"More Context", "more context">>, <<"Unrelated", "unrelated">>,
      <<"Package", "package">>, <<"Packages", "packages">>, <<"Artwork", "artwork">>,
      <<"Make", "make">>, <<"New", "new">>, <<"Publish", "publish">>,
      <<"Season", "season">>, <<"Setup", "setup">>, <<"Archive", "archive">>,
      <<"Contacts", "contacts">> }

\* str.lower()
py_lower(s) ==
    IF \E p \in LowerCased : p[1] = s
    THEN (CHOOSE p \in LowerCased : p[1] = s)[2]
    ELSE s

(***************************************************************************)
(* JSON values and the raw text of the generator                           *)
(***************************************************************************)
JStr(s)   == [ty |-> "str",   s |-> s,  n |-> 0]
JInt(n)   == [ty |-> "int",   s |-> "", n |-> n]
\* a float, kept in tenths: JFloat(609) is 60.9
JFloat(t) == [ty |-> "float", s |-> "", n |-> t]
JNaN      == [ty |-> "nan",   s |-> "", n |-> 0]
JNull     == [ty |-> "null",  s |-> "", n |-> 0]
JBool(b)  == [ty |-> "bool",  s |-> "", n |-> IF b THEN 1 ELSE 0]
JList     == [ty |-> "list",  s |-> "", n |-> 0]

LBrace == [t |-> "lbrace", k |-> "", v |-> JNull]
RBrace == [t |-> "rbrace", k |-> "", v |-> JNull]
Text   == [t |-> "text",   k |-> "", v |-> JNull]
Member(k, v) == [t |-> "member", k |-> k, v |-> v]

\* Decimal literals int() accepts, as (text, value).
DecimalLiterals == { <<"61", 61>>, <<"87", 87>> }

\* int(v) of a decoded JSON value, or the TypeError / ValueError it raises.
py_int(v) ==
    CASE v.ty = "int"   -> [raised |-> FALSE, val |-> v.n]
      [] v.ty = "bool"  -> [raised |-> FALSE, val |-> v.n]
      [] v.ty = "float" -> [raised |-> FALSE,
                            val |-> IF v.n >= 0 THEN v.n \div 10 ELSE -((-v.n) \div 10)]
      [] v.ty = "str"   ->
            IF \E d \in DecimalLiterals : d[1] = py_strip(v.s)
            THEN [raised |-> FALSE,
                  val |-> (CHOOSE d \in DecimalLiterals : d[1] = py_strip(v.s))[2]]
            ELSE [raised |-> TRUE, val |-> 0]
      [] OTHER          -> [raised |-> TRUE, val |-> 0]

\* str.find(tok): 0-based index of the first occurrence, -1 when there is none.
py_find(raw, tok) ==
    IF \E i \in 1..Len(raw) : raw[i] = tok
    THEN (CHOOSE i \in 1..Len(raw) : raw[i] = tok /\ \A j \in 1..(i-1) : raw[j] # tok) - 1
    ELSE -1

\* str.rfind(tok): 0-based index of the last occurrence, -1 when there is none.
py_rfind(raw, tok) ==
    IF \E i \in 1..Len(raw) : raw[i] = tok
    THEN (CHOOSE i \in 1..Len(raw) : raw[i] = tok /\ \A j \in (i+1)..Len(raw) : raw[j] # tok) - 1
    ELSE -1

\* raw[a:b] with Python's rule for a negative start and an end past the text.
py_slice(raw, a, b) ==
    LET lo == IF a < 0 THEN (IF Len(raw) + a < 0 THEN 0 ELSE Len(raw) + a) ELSE a
        hi == IF b > Len(raw) THEN Len(raw) ELSE b
    IN  IF hi <= lo THEN << >> ELSE SubSeq(raw, lo + 1, hi)

\* json.loads: the text decodes when it is one object, a brace pair around members.
\* The decoded dict is the sequence of its members (a later member wins).
json_loads(txt) ==
    IF /\ Len(txt) >= 2
       /\ txt[1] = LBrace
       /\ txt[Len(txt)] = RBrace
       /\ \A i \in 2..(Len(txt) - 1) : txt[i].t = "member"
    THEN [raised |-> FALSE, data |-> SubSeq(txt, 2, Len(txt) - 1)]
    ELSE [raised |-> TRUE, data |-> << >>]

\* dict.get(key, default)
py_get(data, key, default) ==
    IF \E i \in 1..Len(data) : data[i].k = key
    THEN data[CHOOSE i \in 1..Len(data) :
                 data[i].k = key /\ \A j \in (i+1)..Len(data) : data[j].k # key].v
    ELSE default

\* str(v) as an f-string formats a decoded value.
py_format(v) ==
    CASE v.ty = "str"  -> v.s
      [] v.ty = "null" -> "None"
      [] v.ty = "bool" -> IF v.n = 1 THEN "True" ELSE "False"
      [] v.ty = "list" -> "[]"
      [] v.ty = "nan"  -> "nan"
      [] v.ty = "int"  -> ToString(v.n)
      [] OTHER         -> ToString(v.n \div 10) \o "." \o ToString(v.n % 10)

(***************************************************************************)
(* app_5_RAG.py: fusion of the two retrieval channels                      *)
(***************************************************************************)
\* " sep ".join(l)
RECURSIVE py_join(_, _)
py_join(sep, l) ==
    IF Len(l) = 0 THEN ""
    ELSE IF Len(l) = 1 THEN l[1]
    ELSE l[1] \o sep \o py_join(sep, Tail(l))

\* One retrieval entry, as both readers build it.
Chunk(id, title, text) == [chunk_id |-> id, chunk_title |-> title, chunk_text |-> text]

\* f"### {title}\n{text}"
chunk_block(c) == "### " \o c.chunk_title \o "\n" \o c.chunk_text

\* The keyword loop without its title test.
add_keyword_all(kept, keyword_chunks) == kept \o keyword_chunks

\* The keyword loop of combine_results: a keyword entry is kept when its title is
\* not among the titles collected so far.
RECURSIVE add_keyword(_, _)
add_keyword(kept, keyword_chunks) ==
    IF keyword_chunks = << >> THEN kept
    ELSE LET k == Head(keyword_chunks)
         IN  IF \E i \in 1..Len(kept) : kept[i].chunk_title = k.chunk_title
             THEN add_keyword(kept, Tail(keyword_chunks))
             ELSE add_keyword(Append(kept, k), Tail(keyword_chunks))

\* combine_results counting what was retrieved instead of what was merged.
combine_results_raw_count(semantic_chunks, keyword_chunks) ==
    LET kept == add_keyword(semantic_chunks, keyword_chunks)
    IN  [ RAG_combined_id    |-> py_join(" + ", [i \in 1..Len(kept) |-> kept[i].chunk_id]),
          RAG_combined_title |-> py_join(" + ", [i \in 1..Len(kept) |-> kept[i].chunk_title]),
          RAG_combined_text  |-> py_join("\n\n---\n\n", [i \in 1..Len(kept) |-> chunk_block(kept[i])]),
          RAG_combined_total_chunk_number |-> Len(semantic_chunks) + Len(keyword_chunks) ]

combine_results(semantic_chunks, keyword_chunks) ==
    LET kept == add_keyword(semantic_chunks, keyword_chunks)
    IN  [ RAG_combined_id    |-> py_join(" + ", [i \in 1..Len(kept) |-> kept[i].chunk_id]),
          RAG_combined_title |-> py_join(" + ", [i \in 1..Len(kept) |-> kept[i].chunk_title]),
          RAG_combined_text  |-> py_join("\n\n---\n\n", [i \in 1..Len(kept) |-> chunk_block(kept[i])]),
          RAG_combined_total_chunk_number |-> Len(kept) ]

\* master_rag: both futures are awaited; an exception of either reader is re-raised
\* by its .result() call and nothing is combined.
master_rag(semantic, keyword) ==
    IF semantic.raised \/ keyword.raised
    THEN [raised |-> TRUE, RAG_result |-> combine_results(<< >>, << >>)]
    ELSE [raised |-> FALSE, RAG_result |-> combine_results(semantic.chunks, keyword.chunks)]

(***************************************************************************)
(* app_5_LLM.py: master_llm                                                *)
(***************************************************************************)
MasterLLMResult(result, result_confidence, result_explanation, result_summary, RAG_combined_title, RAG_combined_total_chunk_number, is_first_pass) ==
    [ result |-> result,
      result_confidence |-> result_confidence,
      result_explanation |-> result_explanation,
      result_summary |-> result_summary,
      RAG_combined_title |-> RAG_combined_title,
      RAG_combined_total_chunk_number |-> RAG_combined_total_chunk_number,
      is_first_pass |-> is_first_pass ]

\* Placeholder where no MasterLLMResult exists (the call raised, or none was made).
NoResult == MasterLLMResult("", 0, JStr(""), JStr(""), "", 0, FALSE)

\* The fallback dictionary of the except branch.
FallbackData ==
    << Member("result", JStr(LLM_JSON_ERROR)),
       Member("result_confidence", JInt(0)),
       Member("result_explanation", JStr("Parsing failed or no valid JSON output.")),
       Member("result_summary", JStr("")) >>

\* Step 4: json.loads(raw[raw.find("{"):raw.rfind("}")+1]) with the fallback.
parse_llm_json(raw) ==
    LET dec == json_loads(py_slice(raw, py_find(raw, LBrace), py_rfind(raw, RBrace) + 1))
    IN  IF dec.raised THEN FallbackData ELSE dec.data

\* Variant of validate_category that trusts the generator's label.
validate_category_trusting(result) == result

\* Step 5: a result outside the categories becomes the categorization sentinel.
validate_category(result) ==
    IF ~InList(result, TICKET_CATEGORIES) THEN LLM_CATEGORIZATION_ERROR ELSE result

\* Step 6: the one-shot flag is created when absent, read, then set.
first_pass_step(keys, fpd) ==
    LET current == IF "FIRST_PASS_DONE" \in keys THEN fpd ELSE FALSE
    IN  [ is_first_pass   |-> ~current,
          session_keys    |-> keys \cup {"FIRST_PASS_DONE"},
          FIRST_PASS_DONE |-> TRUE ]

\* master_llm(request_description) under the answers of its collaborators:
\* rag is master_rag's outcome, llm the generator's ([raised, content]); keys and
\* fpd are the session state it reads.  The outcome carries the session state it
\* leaves behind, also when it raises.
master_llm(rag, llm, keys, fpd) ==
    LET untouched == [raised |-> TRUE, ret |-> NoResult,
                      session_keys |-> keys, FIRST_PASS_DONE |-> fpd]
        data   == parse_llm_json(llm.content)
        r      == py_get(data, "result", JStr(""))
        result == validate_category(py_strip(r.s))
        fp     == first_pass_step(keys, fpd)
        conf   == py_int(py_get(data, "result_confidence", JInt(0)))
    IN  IF rag.raised THEN untouched                    \* master_rag raised (line 138)
        ELSE IF llm.raised THEN untouched               \* llm.invoke raised (line 168)
        ELSE IF r.ty # "str" THEN untouched             \* .strip() on a non-string (line 186)
        ELSE IF conf.raised                             \* int(...) raised (line 199)
        THEN [raised |-> TRUE, ret |-> NoResult,
              session_keys |-> fp.session_keys, FIRST_PASS_DONE |-> fp.FIRST_PASS_DONE]
        ELSE [raised |-> FALSE,
              ret |-> MasterLLMResult(
                          result,
                          conf.val,
                          py_get(data, "result_explanation", JStr("")),
                          py_get(data, "result_summary", JStr("")),
                          rag.RAG_result.RAG_combined_title,
                          rag.RAG_result.RAG_combined_total_chunk_number,
                          fp.is_first_pass),
              session_keys |-> fp.session_keys, FIRST_PASS_DONE |-> fp.FIRST_PASS_DONE]

(***************************************************************************)
(* app_5_LLM.py: master_flow_orchestrator                                  *)
(***************************************************************************)
\* A response text is the sequence of the pieces of its f-string: fixed text, or
\* the value of the variable f.
T(s) == [f |-> "text", s |-> s]
V(f, s) == [f |-> f, s |-> s]

FlowResult(flow_type, response_text, debug, action) ==
    [flow_type |-> flow_type, response_text |-> response_text,
     debug |-> debug, action |-> action]

\* Placeholder where the orchestrator returned nothing (it raised, or was not called).
NoFlow == FlowResult("", << >>, "", "")

no_context_text ==
    << T("I wasn't able to find any relevant context to classify this request. "),
       T("Could you please describe your ticket again or add a bit more detail?") >>

not_confident_text ==
    << T("I couldn't confidently determine the request type based on your description. "),
       T("Could you please describe your ticket again or add a bit more detail?") >>

more_context_msg(result, result_summary) ==
    << T("Based on the new context you provided, I think '"), V("result", result),
       T("' is the request type you're looking for.\n\n'"), V("result", result),
       T("' means: "), V("result_summary", py_format(result_summary)),
       T("\n\nWould you like me to change the Request Type to '"), V("result", result),
       T("'?") >>

unsure_msg(req_description, result, result_summary) ==
    << T("It looks like you weren't sure which request type your request falls under. "),
       T("No worries, I will help you out.\n\nBased on your Request Description '"),
       V("request_description", req_description),
       T("', I think '"), V("result", result),
       T("' is the request type you're looking for.\n\n'"), V("result", result),
       T("' means: "), V("result_summary", py_format(result_summary)),
       T("\n\nWould you like me to update the Request Type to '"), V("result", result),
       T("' or choose another choice?") >>

\* Variant of mismatch_msg that explains only the suggested label.
mismatch_msg_one_summary(req_type, req_description, result, result_summary, request_type_summary) ==
    << T("It looks like you chose '"), V("request_type", req_type),
       T("' for this ticket. However, based on your Request Description '"),
       V("request_description", req_description),
       T("', I think '"), V("result", result),
       T("' is the request type you're actually looking for.\n\n'"),
       V("result", result),
       T("' means: "), V("result_summary", py_format(result_summary)),
       T("\n\nWould you like me to change the Request Type to '"), V("result", result),
       T("' or continue with your previous choice?") >>

mismatch_msg(req_type, req_description, result, result_summary, request_type_summary) ==
    << T("It looks like you chose '"), V("request_type", req_type),
       T("' for this ticket. However, based on your Request Description '"),
       V("request_description", req_description),
       T("', I think '"), V("result", result),
       T("' is the request type you're actually looking for.\n\n'"),
       V("request_type", req_type),
       T("' means: "), V("request_type_summary", request_type_summary),
       T("\n\n'"), V("result", result),
       T("' means: "), V("result_summary", py_format(result_summary)),
       T("\n\nWould you like me to change the Request Type to '"), V("result", result),
       T("' or continue with your previous choice?") >>

\* request_type_summary_llm: retrieval, then one generation call; neither is guarded.
request_type_summary_llm(rag, response) ==
    IF rag.raised \/ response.raised
    THEN [raised |-> TRUE, text |-> ""]
    ELSE [raised |-> FALSE, text |-> py_strip(response.content)]

\* Variants of the conditions below, each changed the way a slip would change it.
no_chunks_negative(n) == n < 0
low_confidence_strict(result_confidence) == result_confidence < 60
is_match_casefold(result, req_type) == py_lower(result) = py_lower(req_type)
is_later_pass_never(is_first_pass) == FALSE
is_unsure_first_short(req_type, is_first_pass) == req_type = "I'm Unsure" /\ is_first_pass

\* The conditions of the if / elif chain, in the order of the source.
no_chunks(n) == n = 0
low_confidence(result_confidence) == result_confidence <= 60
is_match(result, req_type) == result = req_type
is_later_pass(is_first_pass) == ~is_first_pass
is_unsure_first(req_type, is_first_pass) == req_type = USER_UNSURE /\ is_first_pass
is_mismatch_first(req_type, is_first_pass) == req_type # USER_UNSURE /\ is_first_pass

\* master_flow_orchestrator(master_result, request_type, request_description);
\* summary is what request_type_summary_llm answers if it is called.  The outcome
\* names the request types it asked a summary for.
master_flow_orchestrator(master_result, req_type, req_description, summary) ==
    LET result == master_result.result
        result_confidence == master_result.result_confidence
        result_summary == master_result.result_summary
        is_first_pass == master_result.is_first_pass
        n == master_result.RAG_combined_total_chunk_number
        done(ret) == [raised |-> FALSE, ret |-> ret, summarized |-> << >>]
    IN  IF no_chunks(n)
        THEN done(FlowResult("RAG_RETRIEVAL_ERROR", no_context_text,
                             "RAG retrieved 0 chunks", "RETRY"))
        ELSE IF result = LLM_JSON_ERROR
        THEN done(FlowResult("LLM_JSON_ERROR", not_confident_text,
                             "The LLM responded in a format outside of JSON requirements.",
                             "RETRY"))
        ELSE IF result = LLM_CATEGORIZATION_ERROR
        THEN done(FlowResult("LLM_CATEGORIZATION_ERROR", not_confident_text,
                             "The LLM gave an undefined category.", "RETRY"))
        ELSE IF low_confidence(result_confidence)
        THEN done(FlowResult("LOW_CONFIDENCE_ERROR", not_confident_text,
                             "confidence level of result is <= 60", "RETRY"))
        ELSE IF is_match(result, req_type)
        THEN done(FlowResult("CORRECT_MATCH_COMPLETE",
                             << T("It looks like your request went through correctly!") >>,
                             "result matches request type", "COMPLETE"))
        ELSE IF is_later_pass(is_first_pass)
        THEN done(FlowResult("MORE_CONTEXT_LLM",
                             more_context_msg(result, result_summary), "", "CHATLLM"))
        ELSE IF is_unsure_first(req_type, is_first_pass)
        THEN done(FlowResult("USER_UNSURE_LLM",
                             unsure_msg(req_description, result, result_summary),
                             "", "CHATLLM"))
        ELSE IF is_mismatch_first(req_type, is_first_pass)
        THEN IF summary.raised
             THEN [raised |-> TRUE, ret |-> NoFlow, summarized |-> << req_type >>]
             ELSE [raised |-> FALSE,
                   ret |-> FlowResult("MISMATCH_LLM",
                                      mismatch_msg(req_type, req_description, result,
                                                   result_summary, summary.text),
                                      "", "CHATLLM"),
                   summarized |-> << req_type >>]
        ELSE [raised |-> FALSE, ret |-> NoFlow, summarized |-> << >>]   \* falls off: None

(***************************************************************************)
(* app_5_LLM.py: chat_response_parser_llm                                  *)
(***************************************************************************)
CHAT_RESPONSE_PARSER_CATEGORIES == << "yes", "no", "unrelated", "question", "more context" >>

\* json.dumps of the dictionary built when the classification call itself raised.
classification_error_raw ==
    << LBrace, Member("user_response_type", JStr("unrelated")),
       Member("response", JStr("Error occurred during classification")), RBrace >>

ParserFallbackData ==
    << Member("user_response_type", JStr("unrelated")),
       Member("response", JStr("Sorry, I couldn't process that message properly.")) >>

\* Step 4: the same slice-and-decode as master_llm, with the parser's fallback.
parse_chat_json(raw) ==
    LET dec == json_loads(py_slice(raw, py_find(raw, LBrace), py_rfind(raw, RBrace) + 1))
    IN  IF dec.raised THEN ParserFallbackData ELSE dec.data

\* Step 5 without the membership test.
enforce_intent_trusting(v) == py_strip(py_lower(py_format(v)))

\* Step 5: str(...).lower().strip(), then anything outside the five intents is "unrelated".
enforce_intent(v) ==
    LET t == py_strip(py_lower(py_format(v)))
    IN  IF ~InList(t, CHAT_RESPONSE_PARSER_CATEGORIES) THEN "unrelated" ELSE t

deflection_text == "I'm sorry, but I can only assist with SkyShowtime imagery production requests."

\* chat_response_parser_llm with step 7 left out: an unrelated message keeps the
\* response text the model supplied.
chat_response_parser_llm_no_step_7(llm, rag, answer) ==
    LET raw  == IF llm.raised THEN classification_error_raw ELSE llm.content
        data == parse_chat_json(raw)
        user_response_type == enforce_intent(py_get(data, "user_response_type", JStr("")))
        given == py_get(data, "response", JStr(""))
    IN  IF user_response_type = "question"
        THEN IF rag.raised
             THEN [raised |-> TRUE, retrieved |-> TRUE,
                   user_response_type |-> "", response |-> JStr("")]
             ELSE [raised |-> FALSE, retrieved |-> TRUE,
                   user_response_type |-> user_response_type,
                   response |-> IF answer.raised
                                THEN JStr("Sorry, I couldn't retrieve information right now.")
                                ELSE JStr(py_strip(answer.content))]
        ELSE [raised |-> FALSE, retrieved |-> FALSE,
              user_response_type |-> user_response_type, response |-> given]

\* chat_response_parser_llm(user_message): llm is the classification call's outcome,
\* rag and answer those of master_rag and of the answering call of a question.
\* retrieved tells whether master_rag was called.
chat_response_parser_llm(llm, rag, answer) ==
    LET raw  == IF llm.raised THEN classification_error_raw ELSE llm.content
        data == parse_chat_json(raw)
        user_response_type == enforce_intent(py_get(data, "user_response_type", JStr("")))
        given == py_get(data, "response", JStr(""))
    IN  IF user_response_type = "question"
        THEN IF rag.raised
             THEN [raised |-> TRUE, retrieved |-> TRUE,
                   user_response_type |-> "", response |-> JStr("")]
             ELSE [raised |-> FALSE, retrieved |-> TRUE,
                   user_response_type |-> user_response_type,
                   response |-> IF answer.raised
                                THEN JStr("Sorry, I couldn't retrieve information right now.")
                                ELSE JStr(py_strip(answer.content))]
        ELSE IF user_response_type = "unrelated"
        THEN [raised |-> FALSE, retrieved |-> FALSE,
              user_response_type |-> user_response_type, response |-> JStr(deflection_text)]
        ELSE [raised |-> FALSE, retrieved |-> FALSE,
              user_response_type |-> user_response_type, response |-> given]

(***************************************************************************)
(* Inputs: what the collaborators can answer                              *)
(***************************************************************************)
Categories == { TICKET_CATEGORIES[i] : i \in 1..Len(TICKET_CATEGORIES) }

Sentinels == { LLM_JSON_ERROR, LLM_CATEGORIZATION_ERROR }

ChunkA  == Chunk("sem-1", "Packages", "How to make a new package")
ChunkB  == Chunk("sem-2", "Artwork", "How to publish artwork")
ChunkA2 == Chunk("kw-1", "Packages", "Package keyword text")
ChunkC  == Chunk("kw-3", "Assets", "Adding missing image assets")

Retrieved(chunks) == [raised |-> FALSE, chunks |-> chunks]
RetrievalFailed == [raised |-> TRUE, chunks |-> << >>]

SemanticOutcomes == { RetrievalFailed, Retrieved(<< >>), Retrieved(<< ChunkA >>),
                      Retrieved(<< ChunkA, ChunkB >>) }

KeywordOutcomes == { RetrievalFailed, Retrieved(<< >>), Retrieved(<< ChunkA2 >>),
                     Retrieved(<< ChunkA2, ChunkC >>) }

RagOutcomes == { master_rag(s, k) : s \in SemanticOutcomes, k \in KeywordOutcomes }

\* Values the generator may put under "result".
ResultValues ==
    { JStr(c) : c \in Categories }
        \cup { JStr(" Make New Package "), JStr("make new package"), JStr("Something Else"),
               JStr(LLM_JSON_ERROR), JStr(""), JNull, JInt(3), JList }

\* Values the generator may put under "result_confidence".
ConfidenceValues ==
    { JInt(n) : n \in {-5, 0, 60, 61, 95, MaxConfidence, MaxConfidence + 50} }
        \cup { JFloat(609), JFloat(610), JStr("87"), JStr(" 61 "), JStr("high"),
               JNull, JBool(TRUE), JList, JNaN }

\* The members of one decodable object.
MemberLists ==
    LET rs == { << >> } \cup { << Member("result", v) >> : v \in ResultValues }
        cs == { << >> } \cup { << Member("result_confidence", v) >> : v \in ConfidenceValues }
        ss == { << >>, << Member("result_summary", JStr("A summary")) >> }
    IN  { r \o c \o s : r \in rs, c \in cs, s \in ss }
            \cup { << Member("result", JStr("Something Else")),
                      Member("result_confidence", JInt(95)),
                      Member("result", JStr("Add Missing Image Assets")) >> }

\* Text that decodes: an object, bare or inside other text.
DecodableRaw ==
    { << LBrace >> \o m \o << RBrace >> : m \in MemberLists }
        \cup { << Text, LBrace >> \o m \o << RBrace, Text >> : m \in MemberLists }

\* Text that does not decode.
UndecodableRaw ==
    LET m == Member("result", JStr("Make New Package"))
    IN  { << >>, << Text >>, << LBrace >>, << RBrace >>, << Text, RBrace >>,
          << RBrace, LBrace >>, << LBrace, Text, RBrace >>,
          << LBrace, m, RBrace, Text, RBrace >>, << LBrace, LBrace, m, RBrace >>,
          << LBrace, m >> }

Answered(content) == [raised |-> FALSE, content |-> content]
GenerationFailed == [raised |-> TRUE, content |-> << >>]

LlmOutcomes == { GenerationFailed } \cup { Answered(raw) : raw \in DecodableRaw \cup UndecodableRaw }

SummaryOutcomes == { [raised |-> TRUE, text |-> ""],
                     request_type_summary_llm(master_rag(Retrieved(<< ChunkA >>), Retrieved(<< >>)),
                                              [raised |-> FALSE, content |-> " Summary of the chosen type "]) }

\* Labels and chosen labels the orchestrator is exercised with.
OrchLabels == Categories \cup Sentinels
OrchTypes  == Categories \cup { USER_UNSURE, "make new package" }

(***************************************************************************)
(* State shared by the specifications                                      *)
(***************************************************************************)
NoEnv == [rag |-> master_rag(Retrieved(<< >>), Retrieved(<< >>)),
          llm |-> GenerationFailed,
          summary |-> [raised |-> TRUE, text |-> ""]]

\* The record of the last call: which function, whether it raised, the request
\* types it asked a summary for, and (in a session) what it worked on.
Call(fn, raised, summarized, result, flow, chosen) ==
    [fn |-> fn, raised |-> raised, summarized |-> summarized,
     result |-> result, flow |-> flow, chosen |-> chosen]

NoCall == Call("none", FALSE, << >>, NoResult, NoFlow, "")

NoRecord == [exists |-> FALSE, id |-> "",
             Request_Type |-> "", Request_Description |-> "", Chatbot_Chat_History |-> ""]

NoHistory == [calls |-> 0, results |-> 0, first_pass_results |-> 0,
              first_pass_flows |-> 0, flag_sets |-> 0, flag_resets |-> 0,
              latest |-> ""]

\* A script run: what started it ("form" for the Next button, "retry" and "chat"
\* for a chat message under the RETRY and the CHATLLM decision, "idle" for a run
\* without widget input), the chat message, the intent chat_response_parser_llm
\* returned for it, and how often the run called the intent parser, master_llm
\* and master_rag.
Turn(kind, user_input, intent, parser_calls, master_llm_calls, retrievals) ==
    [kind |-> kind, user_input |-> user_input, intent |-> intent,
     parser_calls |-> parser_calls, master_llm_calls |-> master_llm_calls,
     retrievals |-> retrievals]

NoTurn == Turn("none", "", "", 0, 0, 0)

\* A fresh session: only the page key exists (streamlit file, lines 242-243).
UiStart ==
    /\ original_request_description = ""
    /\ master_flow_orchestrator_action = ""
    /\ record_id = ""
    /\ chat_history = << >>
    /\ final_updates_done = FALSE
    /\ airtable = NoRecord
    /\ airtable_calls = << >>
    /\ notices = << >>
    /\ last_turn = NoTurn

\* A future: not yet submitted ("none"), queued ("pending"), being run by a pool
\* thread ("running"), or holding the reader's outcome ("finished").
Future(state, outcome) == [state |-> state, outcome |-> outcome]

NoFuture == Future("none", RetrievalFailed)

NoBundle == [raised |-> FALSE, RAG_result |-> combine_results(<< >>, << >>)]

\* No master_rag call is under way.
RagStart ==
    /\ rag_pc = "idle"
    /\ future_semantic = NoFuture
    /\ future_keyword = NoFuture
    /\ semantic_result = << >>
    /\ keyword_result = << >>
    /\ RAG_result = NoBundle
    /\ finish_order = << >>

(***************************************************************************)
(* SpecLLM: master_llm applied to every answer of its collaborators        *)
(***************************************************************************)
InitLLM ==
    /\ pc = "llm_input"
    /\ page = 1
    /\ \E present \in BOOLEAN :
          /\ session_keys = IF present THEN {"page", "FIRST_PASS_DONE"} ELSE {"page"}
          /\ FIRST_PASS_DONE \in (IF present THEN BOOLEAN ELSE {FALSE})
    /\ request_type = ""
    /\ request_description = "Please add episodes 3-7 to the package"
    /\ master_llm_result = NoResult
    /\ master_flow_result = NoFlow
    /\ env \in [rag : RagOutcomes, llm : LlmOutcomes, summary : {[raised |-> TRUE, text |-> ""]}]
    /\ last_call = NoCall
    /\ history = NoHistory
    /\ UiStart
    /\ RagStart

CallMasterLLM ==
    /\ pc = "llm_input"
    /\ LET out == master_llm(env.rag, env.llm, session_keys, FIRST_PASS_DONE)
       IN  /\ master_llm_result' = out.ret
           /\ session_keys' = out.session_keys
           /\ FIRST_PASS_DONE' = out.FIRST_PASS_DONE
           /\ last_call' = Call("master_llm", out.raised, << >>, out.ret, NoFlow, "")
    /\ pc' = "llm_done"
    /\ UNCHANGED <<page, request_type, request_description, master_flow_result, env, history>>
    /\ UNCHANGED ui_vars
    /\ UNCHANGED rag_vars

NextLLM == CallMasterLLM

SpecLLM == InitLLM /\ [][NextLLM]_vars

(***************************************************************************)
(* SpecOrch: master_flow_orchestrator applied to every classification      *)
(***************************************************************************)
InitOrch ==
    /\ pc = "orch_input"
    /\ page = 1
    /\ session_keys = {"page", "FIRST_PASS_DONE"}
    /\ FIRST_PASS_DONE = TRUE
    /\ request_type \in OrchTypes
    /\ request_description = "Please add episodes 3-7 to the package"
    /\ master_llm_result \in
          { MasterLLMResult(l, c, JStr("Because"), JStr("A summary"), "Packages", n, fp) :
                l \in OrchLabels, c \in (0 - 1)..(MaxConfidence + 1),
                n \in 0..MaxChunks, fp \in BOOLEAN }
    /\ master_flow_result = NoFlow
    /\ env \in [rag : {NoEnv.rag}, llm : {GenerationFailed}, summary : SummaryOutcomes]
    /\ last_call = NoCall
    /\ history = NoHistory
    /\ UiStart
    /\ RagStart

CallOrchestrator ==
    /\ pc = "orch_input"
    /\ LET out == master_flow_orchestrator(master_llm_result, request_type,
                                           request_description, env.summary)
       IN  /\ master_flow_result' = out.ret
           /\ last_call' = Call("master_flow_orchestrator", out.raised, out.summarized,
                                 master_llm_result, out.ret, request_type)
    /\ pc' = "orch_done"
    /\ UNCHANGED <<page, session_keys, FIRST_PASS_DONE, request_type, request_description,
                   master_llm_result, env, history>>
    /\ UNCHANGED ui_vars
    /\ UNCHANGED rag_vars

NextOrch == CallOrchestrator

SpecOrch == InitOrch /\ [][NextOrch]_vars

(***************************************************************************)
(* app_3_llm.py: rag_classify, and SpecBoundary, which gives the same      *)
(* label, confidence and evidence to rag_classify and to the orchestrator  *)
(***************************************************************************)
INSUFFICIENT_CONTEXT == "Insufficient Context"

\* Line 117 with the comparison of app_5_LLM.py line 259.
insufficient_confidence_inclusive(conf) == conf <= 60

\* Line 117: if conf < 60
insufficient_confidence(conf) == conf < 60

\* rag_classify from its retrieval and the decoded answer on: matches is the
\* number of chunks retrieved, result_norm the normalised label (a category) and
\* conf the integer confidence of the generator's answer.
rag_classify(matches, result_norm, conf) ==
    IF matches = 0
    THEN [result |-> INSUFFICIENT_CONTEXT, confidence |-> 0]
    ELSE [result |-> IF insufficient_confidence(conf) THEN INSUFFICIENT_CONTEXT ELSE result_norm,
          confidence |-> conf]

InitBoundary ==
    /\ pc = "boundary_input"
    /\ page = 1
    /\ session_keys = {"page", "FIRST_PASS_DONE"}
    /\ FIRST_PASS_DONE = TRUE
    /\ request_type \in OrchTypes
    /\ request_description = "Please add episodes 3-7 to the package"
    /\ master_llm_result \in
          { MasterLLMResult(l, c, JStr("Because"), JStr("A summary"), "Packages", n, fp) :
                l \in Categories, c \in 0..MaxConfidence, n \in 0..MaxChunks, fp \in BOOLEAN }
    /\ master_flow_result = NoFlow
    /\ env \in [rag : {NoEnv.rag}, llm : {GenerationFailed}, summary : SummaryOutcomes]
    /\ last_call = NoCall
    /\ history = NoHistory
    /\ UiStart
    /\ RagStart

\* Both implementations are given the label, confidence and chunk count of
\* master_llm_result; last_call keeps what each of them answered.
CallBoth ==
    /\ pc = "boundary_input"
    /\ LET out == master_flow_orchestrator(master_llm_result, request_type,
                                           request_description, env.summary)
       IN  /\ master_flow_result' = out.ret
           /\ last_call' = [fn |-> "rag_classify / master_flow_orchestrator",
                            raised |-> out.raised,
                            app_3 |-> rag_classify(
                                          master_llm_result.RAG_combined_total_chunk_number,
                                          master_llm_result.result,
                                          master_llm_result.result_confidence),
                            app_5 |-> out.ret]
    /\ pc' = "boundary_done"
    /\ UNCHANGED <<page, session_keys, FIRST_PASS_DONE, request_type, request_description,
                   master_llm_result, env, history>>
    /\ UNCHANGED ui_vars
    /\ UNCHANGED rag_vars

NextBoundary == CallBoth

SpecBoundary == InitBoundary /\ [][NextBoundary]_vars

(***************************************************************************)
(* SpecRag: one master_rag call, its two pool threads interleaved          *)
(***************************************************************************)
ChunkA3 == Chunk("sem-3", "Packages", "More on packages")
ChunkB2 == Chunk("kw-2", "Artwork", "Artwork keyword text")
ChunkC2 == Chunk("kw-4", "Assets", "Replacing image assets")

\* The entries the two readers can return.
SemanticPool == { ChunkA, ChunkB, ChunkA3 }
KeywordPool  == { ChunkA2, ChunkB2, ChunkC, ChunkC2 }

\* The result lists of a reader: up to MaxListLen different entries of its pool.
ResultLists(pool) ==
    { l \in UNION { [1..n -> pool] : n \in 0..MaxListLen } :
         \A i, j \in 1..Len(l) : i # j => l[i] # l[j] }

\* What a reader can answer: a result list, or an exception.
ReaderOutcomes(pool) == { RetrievalFailed } \cup { Retrieved(l) : l \in ResultLists(pool) }

\* Future.result() returns (or raises) only once the future holds an outcome.
future_done_eager(f) == f.state # "none"
future_done(f) == f.state = "finished"

InitRag ==
    /\ pc = "rag"
    /\ page = 1
    /\ session_keys = {"page"}
    /\ FIRST_PASS_DONE = FALSE
    /\ request_type = ""
    /\ request_description = "Please add episodes 3-7 to the package"
    /\ master_llm_result = NoResult
    /\ master_flow_result = NoFlow
    /\ env \in [semantic : ReaderOutcomes(SemanticPool), keyword : ReaderOutcomes(KeywordPool)]
    /\ last_call = NoCall
    /\ history = NoHistory
    /\ UiStart
    /\ rag_pc = "submit_semantic"
    /\ future_semantic = NoFuture
    /\ future_keyword = NoFuture
    /\ semantic_result = << >>
    /\ keyword_result = << >>
    /\ RAG_result = NoBundle
    /\ finish_order = << >>

\* What no step of master_rag touches.
rag_frame ==
    UNCHANGED <<pc, page, session_keys, FIRST_PASS_DONE, request_type, request_description,
                master_llm_result, master_flow_result, env, last_call, history, ui_vars>>

\* executor.submit(rag_retrieve_semantic, query)
SubmitSemantic ==
    /\ pc = "rag" /\ rag_pc = "submit_semantic"
    /\ future_semantic' = Future("pending", RetrievalFailed)
    /\ rag_pc' = "submit_keyword"
    /\ UNCHANGED <<future_keyword, semantic_result, keyword_result, RAG_result>>
    /\ UNCHANGED finish_order
    /\ rag_frame

\* executor.submit(rag_retrieve_keyword, query)
SubmitKeyword ==
    /\ pc = "rag" /\ rag_pc = "submit_keyword"
    /\ future_keyword' = Future("pending", RetrievalFailed)
    /\ rag_pc' = "result_semantic"
    /\ UNCHANGED <<future_semantic, semantic_result, keyword_result, RAG_result>>
    /\ UNCHANGED finish_order
    /\ rag_frame

\* A pool thread takes the semantic work item.
StartSemantic ==
    /\ pc = "rag" /\ future_semantic.state = "pending"
    /\ future_semantic' = Future("running", RetrievalFailed)
    /\ UNCHANGED <<rag_pc, future_keyword, semantic_result, keyword_result, RAG_result>>
    /\ UNCHANGED finish_order
    /\ rag_frame

\* rag_retrieve_semantic returns or raises; the future keeps the outcome.
FinishSemantic ==
    /\ pc = "rag" /\ future_semantic.state = "running"
    /\ future_semantic' = Future("finished", env.semantic)
    /\ finish_order' = Append(finish_order, "semantic")
    /\ UNCHANGED <<rag_pc, future_keyword, semantic_result, keyword_result, RAG_result>>
    /\ rag_frame

\* A pool thread takes the keyword work item.
StartKeyword ==
    /\ pc = "rag" /\ future_keyword.state = "pending"
    /\ future_keyword' = Future("running", RetrievalFailed)
    /\ UNCHANGED <<rag_pc, future_semantic, semantic_result, keyword_result, RAG_result>>
    /\ UNCHANGED finish_order
    /\ rag_frame

\* rag_retrieve_keyword returns or raises; the future keeps the outcome.
FinishKeyword ==
    /\ pc = "rag" /\ future_keyword.state = "running"
    /\ future_keyword' = Future("finished", env.keyword)
    /\ finish_order' = Append(finish_order, "keyword")
    /\ UNCHANGED <<rag_pc, future_semantic, semantic_result, keyword_result, RAG_result>>
    /\ rag_frame

\* semantic_chunks = future_semantic.result(): an exception of the reader is
\* raised again here and leaves the with block.
ResultSemantic ==
    /\ pc = "rag" /\ rag_pc = "result_semantic"
    /\ future_done(future_semantic)
    /\ IF future_semantic.outcome.raised
       THEN /\ rag_pc' = "exit_raising"
            /\ UNCHANGED semantic_result
       ELSE /\ rag_pc' = "result_keyword"
            /\ semantic_result' = future_semantic.outcome.chunks
    /\ UNCHANGED <<future_semantic, future_keyword, keyword_result, RAG_result>>
    /\ UNCHANGED finish_order
    /\ rag_frame

\* keyword_chunks = future_keyword.result()
ResultKeyword ==
    /\ pc = "rag" /\ rag_pc = "result_keyword"
    /\ future_done(future_keyword)
    /\ IF future_keyword.outcome.raised
       THEN /\ rag_pc' = "exit_raising"
            /\ UNCHANGED keyword_result
       ELSE /\ rag_pc' = "exit"
            /\ keyword_result' = future_keyword.outcome.chunks
    /\ UNCHANGED <<future_semantic, future_keyword, semantic_result, RAG_result>>
    /\ UNCHANGED finish_order
    /\ rag_frame

\* The end of the with block: ThreadPoolExecutor.__exit__ joins the pool's
\* threads, then the block is left normally or by the pending exception.
ExitPool ==
    /\ pc = "rag" /\ rag_pc \in {"exit", "exit_raising"}
    /\ future_done(future_semantic) /\ future_done(future_keyword)
    /\ IF rag_pc = "exit_raising"
       THEN /\ rag_pc' = "raised"
            /\ RAG_result' = [raised |-> TRUE, RAG_result |-> combine_results(<< >>, << >>)]
       ELSE /\ rag_pc' = "combine"
            /\ UNCHANGED RAG_result
    /\ UNCHANGED <<future_semantic, future_keyword, semantic_result, keyword_result>>
    /\ UNCHANGED finish_order
    /\ rag_frame

\* combine_results given the two lists in the order in which the readers finished.
Combine_as_completed ==
    /\ pc = "rag" /\ rag_pc = "combine"
    /\ RAG_result' = [raised |-> FALSE,
                      RAG_result |-> IF finish_order[1] = "keyword"
                                     THEN combine_results(keyword_result, semantic_result)
                                     ELSE combine_results(semantic_result, keyword_result)]
    /\ rag_pc' = "returned"
    /\ UNCHANGED <<future_semantic, future_keyword, semantic_result, keyword_result>>
    /\ UNCHANGED finish_order
    /\ rag_frame

\* RAG_result = combine_results(semantic_chunks, keyword_chunks); return RAG_result
Combine ==
    /\ pc = "rag" /\ rag_pc = "combine"
    /\ RAG_result' = [raised |-> FALSE,
                      RAG_result |-> combine_results(semantic_result, keyword_result)]
    /\ rag_pc' = "returned"
    /\ UNCHANGED <<future_semantic, future_keyword, semantic_result, keyword_result>>
    /\ UNCHANGED finish_order
    /\ rag_frame

NextRag ==
    \/ SubmitSemantic \/ SubmitKeyword
    \/ StartSemantic \/ FinishSemantic
    \/ StartKeyword \/ FinishKeyword
    \/ ResultSemantic \/ ResultKeyword
    \/ ExitPool \/ Combine

SpecRag == InitRag /\ [][NextRag]_vars

(***************************************************************************)
(* app_5_RAG.py: rag_retrieve_keyword                                      *)
(*                                                                         *)
(* A title or a text of the store is the sequence of its words, a query    *)
(* the sequence of words re.findall finds in it.  The table rag_chunks is  *)
(* the sequence of its rows in the order a scan without ORDER BY yields.   *)
(***************************************************************************)
\* str.count of a keyword in one lower-cased word of the store, as (word, keyword, count).
SubstringCounts ==
    { <<"package", "package", 1>>, <<"packages", "package", 1>>,
      <<"repackage", "package", 1>>, <<"artwork", "artwork", 1>>,
      <<"episodes", "episodes", 1>> }

word_count(word, k) ==
    IF \E c \in SubstringCounts : c[1] = py_lower(word) /\ c[2] = k
    THEN (CHOOSE c \in SubstringCounts : c[1] = py_lower(word) /\ c[2] = k)[3]
    ELSE 0

\* field.lower().count(k)
RECURSIVE py_count(_, _)
py_count(field, k) ==
    IF field = << >> THEN 0 ELSE word_count(Head(field), k) + py_count(Tail(field), k)

\* keywords = [w.lower() for w in re.findall(r"\w+", query_text) if len(w) > 2]
RECURSIVE tokenize(_)
tokenize(words) ==
    IF words = << >> THEN << >>
    ELSE IF Len(Head(words)) > 2
         THEN << py_lower(Head(words)) >> \o tokenize(Tail(words))
         ELSE tokenize(Tail(words))

\* (LOWER(title) LIKE %k% OR LOWER(text) LIKE %k%) for some keyword k
RECURSIVE where_clause(_, _)
where_clause(row, keywords) ==
    IF keywords = << >> THEN FALSE
    ELSE \/ py_count(row.title, Head(keywords)) > 0
         \/ py_count(row.text, Head(keywords)) > 0
         \/ where_clause(row, Tail(keywords))

\* The rows of a sequence that satisfy the WHERE clause, in order.
RECURSIVE matching_rows(_, _)
matching_rows(rows, keywords) ==
    IF rows = << >> THEN << >>
    ELSE IF where_clause(Head(rows), keywords)
         THEN << Head(rows) >> \o matching_rows(Tail(rows), keywords)
         ELSE matching_rows(Tail(rows), keywords)

\* l[:n]
py_prefix(l, n) == SubSeq(l, 1, IF n < Len(l) THEN n ELSE Len(l))

\* SELECT id, title, text FROM rag_chunks WHERE ... LIMIT limit
sql_select(rag_chunks, keywords, limit) == py_prefix(matching_rows(rag_chunks, keywords), limit)

\* sum(text.lower().count(k) + title.lower().count(k) * 2 for k in keywords)
RECURSIVE chunk_score(_, _)
chunk_score(row, keywords) ==
    IF keywords = << >> THEN 0
    ELSE py_count(row.text, Head(keywords)) + py_count(row.title, Head(keywords)) * 2
             + chunk_score(row, Tail(keywords))

ScoredChunk(row, keywords) ==
    [chunk_id |-> row.id, chunk_title |-> row.title, chunk_text |-> row.text,
     chunk_score |-> chunk_score(row, keywords)]

\* An entry put into a list sorted by descending score, behind its equals.
RECURSIVE insert_by_score(_, _)
insert_by_score(sorted, c) ==
    IF sorted = << >> THEN << c >>
    ELSE IF Head(sorted).chunk_score >= c.chunk_score
         THEN << Head(sorted) >> \o insert_by_score(Tail(sorted), c)
         ELSE << c >> \o sorted

\* scored.sort(key=chunk_score, reverse=True): stable, descending.
RECURSIVE sort_by_score(_)
sort_by_score(scored) ==
    IF scored = << >> THEN << >>
    ELSE insert_by_score(sort_by_score(SubSeq(scored, 1, Len(scored) - 1)),
                         scored[Len(scored)])

\* rag_retrieve_keyword(query_text, top_k): db_exists is os.path.exists of the
\* database file; a query without keywords makes the statement end in "WHERE"
\* and cursor.execute raise.
rag_retrieve_keyword(db_exists, rag_chunks, words, top_k) ==
    LET keywords == tokenize(words)
        rows == sql_select(rag_chunks, keywords, top_k * 3)
        scored == [i \in 1..Len(rows) |-> ScoredChunk(rows[i], keywords)]
    IN  IF ~db_exists \/ keywords = << >>
        THEN RetrievalFailed
        ELSE Retrieved(py_prefix(sort_by_score(scored), top_k))

(***************************************************************************)
(* SpecKeyword: rag_retrieve_keyword applied to stores and queries         *)
(***************************************************************************)
Row(id, title, text) == [id |-> id, title |-> title, text |-> text]

\* The rows a store can hold.
RowPool ==
    { Row("c1", << "Make", "New", "Package" >>, << "a", "package", "groups", "episodes" >>),
      Row("c2", << "Publish", "Artwork" >>, << "artwork", "goes", "live" >>),
      Row("c3", << "Season", "Setup" >>, << "add", "episodes", "to", "packages" >>),
      Row("c4", << "Archive" >>, << "repackage", "old", "seasons" >>),
      Row("c5", << "Package", "Packages" >>, << "package", "package", "artwork" >>),
      Row("c6", << "Contacts" >>, << "who", "to", "ask" >>) }

\* The stores: up to MaxRows different rows in any scan order.
Stores ==
    { l \in UNION { [1..n -> RowPool] : n \in 0..MaxRows } :
         \A i, j \in 1..Len(l) : i # j => l[i] # l[j] }

\* The queries, as the words re.findall finds.
Queries == { << >>, << "to" >>, << "Package" >>, << "add", "artwork", "to", "package" >> }

InitKeyword ==
    /\ pc = "keyword_input"
    /\ page = 1
    /\ session_keys = {"page"}
    /\ FIRST_PASS_DONE = FALSE
    /\ request_type = ""
    /\ request_description = ""
    /\ master_llm_result = NoResult
    /\ master_flow_result = NoFlow
    /\ env \in [db_exists : BOOLEAN, rag_chunks : Stores, words : Queries, top_k : 1..MaxTopK]
    /\ last_call = NoCall
    /\ history = NoHistory
    /\ UiStart
    /\ RagStart

\* A pool thread runs rag_retrieve_keyword; the future keeps what it returned or raised.
RetrieveKeyword ==
    /\ pc = "keyword_input"
    /\ future_keyword' =
          Future("finished",
                 rag_retrieve_keyword(env.db_exists, env.rag_chunks, env.words, env.top_k))
    /\ pc' = "keyword_done"
    /\ UNCHANGED <<rag_pc, future_semantic, semantic_result, keyword_result, RAG_result,
                   finish_order>>
    /\ UNCHANGED <<page, session_keys, FIRST_PASS_DONE, request_type, request_description,
                   master_llm_result, master_flow_result, env, last_call, history, ui_vars>>

NextKeyword == RetrieveKeyword

SpecKeyword == InitKeyword /\ [][NextKeyword]_vars

(***************************************************************************)
(* app_5_streamlit.py: store helpers                                       *)
(*                                                                         *)
(* A script run works on a world w: the session state, the store and the   *)
(* notices shown, as one record.  w.raised tells that the run ended in an  *)
(* uncaught exception, w.rerun that it ended in st.rerun().                *)
(***************************************************************************)
World ==
    [ page |-> page, session_keys |-> session_keys, FIRST_PASS_DONE |-> FIRST_PASS_DONE,
      request_type |-> request_type, request_description |-> request_description,
      original_request_description |-> original_request_description,
      master_llm_result |-> master_llm_result, master_flow_result |-> master_flow_result,
      master_flow_orchestrator_action |-> master_flow_orchestrator_action,
      record_id |-> record_id, chat_history |-> chat_history,
      final_updates_done |-> final_updates_done,
      airtable |-> airtable, airtable_calls |-> airtable_calls, notices |-> << >>,
      last_call |-> last_call, history |-> history,
      last_turn |-> Turn("idle", "", "", 0, 0, 0),
      raised |-> FALSE, rerun |-> FALSE ]

\* st.error / st.warning / st.success / st.info
st_notice(w, kind, text) == [w EXCEPT !.notices = Append(@, [kind |-> kind, text |-> text])]

\* create_main_record(fields); ok is whether the store accepts the request.
\* The result is the new record id, "" for None.
create_main_record(w, fields, ok) ==
    LET issued == [w EXCEPT !.airtable_calls =
                       Append(@, [op |-> "create", field |-> "", value |-> "", ok |-> ok])]
    IN  IF ok
        THEN [ w  |-> [issued EXCEPT !.airtable =
                          [exists |-> TRUE, id |-> "rec1",
                           Request_Type |-> fields.Request_Type,
                           Request_Description |-> fields.Request_Description,
                           Chatbot_Chat_History |-> ""]],
               id |-> "rec1" ]
        ELSE [ w |-> st_notice(issued, "error", "Error creating record"), id |-> "" ]

\* update_record with a store that applies every update to the record it holds,
\* also the ones it reports as refused.
update_record_applied_anyway(w, rid, field, value, ok) ==
    LET success == ok /\ w.airtable.exists /\ rid = w.airtable.id
        issued  == [w EXCEPT !.airtable_calls =
                       Append(@, [op |-> "update", field |-> field, value |-> value,
                                  ok |-> success])]
        applied == [issued EXCEPT !.airtable = [@ EXCEPT ![field] = value]]
    IN  IF success
        THEN [ w |-> applied, success |-> TRUE ]
        ELSE [ w |-> st_notice(applied, "error", "Error updating record"), success |-> FALSE ]

\* update_record(record_id, {field: value}); the store refuses an id it does not hold.
update_record(w, rid, field, value, ok) ==
    LET success == ok /\ w.airtable.exists /\ rid = w.airtable.id
        issued  == [w EXCEPT !.airtable_calls =
                       Append(@, [op |-> "update", field |-> field, value |-> value,
                                  ok |-> success])]
    IN  IF success
        THEN [ w |-> [issued EXCEPT !.airtable = [@ EXCEPT ![field] = value]],
               success |-> TRUE ]
        ELSE [ w |-> st_notice(issued, "error", "Error updating record"), success |-> FALSE ]

\* list[::-1] / reversed(list)
py_reversed(l) == [i \in 1..Len(l) |-> l[Len(l) + 1 - i]]

\* The text of a chat entry: the pieces of its content, concatenated.
content_text(content) == py_join("", [i \in 1..Len(content) |-> content[i].s])

\* The contents of the user's entries of a chat history, in order.
RECURSIVE user_contents(_)
user_contents(h) ==
    IF h = << >> THEN << >>
    ELSE IF Head(h).role = "user"
         THEN << content_text(Head(h).content) >> \o user_contents(Tail(h))
         ELSE user_contents(Tail(h))

update_consolidated_request_description(w, rid, ok) ==
    LET all_user_inputs == py_reversed(user_contents(w.chat_history))
        original_description == IF "original_request_description" \in w.session_keys
                                THEN w.original_request_description ELSE ""
        combined_text == py_join("\n\n",
                                 py_reversed(all_user_inputs \o << original_description >>))
        u == update_record(w, rid, "Request_Description", combined_text, ok)
    IN  IF u.success
        THEN st_notice(u.w, "info", "Updated Airtable Request Description with all chat context.")
        ELSE st_notice(u.w, "warning", "Failed to update Airtable Request Description.")

\* str.capitalize() of a chat role
capitalize(role) == IF role = "user" THEN "User" ELSE IF role = "assistant" THEN "Assistant" ELSE role

update_chat_history_record(w, rid, ok) ==
    LET chat_entries == [i \in 1..Len(w.chat_history) |->
                            capitalize(w.chat_history[i].role) \o ": "
                                \o content_text(w.chat_history[i].content)]
        full_chat_log == py_join("\n\n", chat_entries)
        u == update_record(w, rid, "Chatbot_Chat_History", full_chat_log, ok)
    IN  IF u.success
        THEN st_notice(u.w, "info", "Chat history successfully saved to Airtable.")
        ELSE st_notice(u.w, "warning", "Failed to update Chatbot Chat History.")

(***************************************************************************)
(* app_5_streamlit.py: the pages                                           *)
(***************************************************************************)
\* page_3_confirmation without the final_updates_done test of line 672.
page_3_confirmation_every_render(w, fin) ==
    LET rid == IF "record_id" \in w.session_keys THEN w.record_id ELSE ""
    IN  IF rid # ""
        THEN LET w1 == update_consolidated_request_description(w, rid, fin.description)
                 w2 == update_chat_history_record(w1, rid, fin.chat)
             IN  [w2 EXCEPT !.final_updates_done = TRUE,
                            !.session_keys = @ \cup {"final_updates_done"}]
        ELSE w

\* page_3_confirmation; fin tells which of the two final updates the store accepts.
page_3_confirmation(w, fin) ==
    LET rid == IF "record_id" \in w.session_keys THEN w.record_id ELSE ""
        done == IF "final_updates_done" \in w.session_keys THEN w.final_updates_done ELSE FALSE
    IN  IF rid # "" /\ ~done
        THEN LET w1 == update_consolidated_request_description(w, rid, fin.description)
                 w2 == update_chat_history_record(w1, rid, fin.chat)
             IN  [w2 EXCEPT !.final_updates_done = TRUE,
                            !.session_keys = @ \cup {"final_updates_done"}]
        ELSE w

\* What a caller holds after master_llm (outcome m) and master_flow_orchestrator
\* (outcome o) ran for the chosen label rt: whether one of them raised, the two
\* results, and the session with the invocation counted.  The session keeps what
\* master_llm did to it also when one of the two raises.
classified(w, rt, m, o) ==
    LET h == w.history
        was_set == "FIRST_PASS_DONE" \in w.session_keys /\ w.FIRST_PASS_DONE
    IN  [ raised |-> m.raised \/ o.raised,
          master_llm_result |-> m.ret,
          master_flow_result |-> o.ret,
          w |-> [w EXCEPT
                   !.session_keys = m.session_keys,
                   !.FIRST_PASS_DONE = m.FIRST_PASS_DONE,
                   !.last_call = Call("master_llm", m.raised, o.summarized, m.ret, o.ret, rt),
                   !.last_turn = [@ EXCEPT !.master_llm_calls = @ + 1,
                                           !.retrievals = @ + 1 + Len(o.summarized)],
                   !.history =
                       [ calls   |-> h.calls + 1,
                         results |-> h.results + (IF m.raised THEN 0 ELSE 1),
                         first_pass_results |-> h.first_pass_results
                             + (IF ~m.raised /\ m.ret.is_first_pass THEN 1 ELSE 0),
                         first_pass_flows |-> h.first_pass_flows
                             + (IF o.ret.flow_type \in {"USER_UNSURE_LLM", "MISMATCH_LLM"}
                                THEN 1 ELSE 0),
                         flag_sets |-> h.flag_sets
                             + (IF ~was_set /\ m.FIRST_PASS_DONE THEN 1 ELSE 0),
                         flag_resets |-> h.flag_resets
                             + (IF was_set /\ ~m.FIRST_PASS_DONE THEN 1 ELSE 0),
                         latest |-> IF m.raised THEN h.latest ELSE m.ret.result ]] ]

\* The orchestrator call that follows a master_llm call with outcome m.
then_orchestrate(w, rd, rt, m, summary) ==
    classified(w, rt, m,
               IF m.raised
               THEN [raised |-> FALSE, ret |-> NoFlow, summarized |-> << >>]
               ELSE master_flow_orchestrator(m.ret, rt, rd, summary))

\* master_llm(rd) followed by master_flow_orchestrator(result, rt, rd), as every
\* caller runs them.
classify(w, rd, rt, rag, llm, summary) ==
    then_orchestrate(w, rd, rt, master_llm(rag, llm, w.session_keys, w.FIRST_PASS_DONE),
                     summary)

\* chat_history assigned a new list instead of appended to.
assistant_says_only(w, content) ==
    [w EXCEPT !.chat_history = << [role |-> "assistant", content |-> content] >>]

\* st.session_state.chat_history.append({"role": "assistant", "content": content, ...})
assistant_says(w, content) ==
    [w EXCEPT !.chat_history = Append(@, [role |-> "assistant", content |-> content])]

\* Lines 432-454: what the RETRY branch does with the classification c.
retry_done(c) ==
    IF c.raised THEN [c.w EXCEPT !.raised = TRUE]
    ELSE [assistant_says(c.w, c.master_flow_result.response_text) EXCEPT
             !.master_llm_result = c.master_llm_result,
             !.master_flow_result = c.master_flow_result,
             !.master_flow_orchestrator_action = c.master_flow_result.action,
             !.session_keys = @ \cup {"master_llm_result", "master_flow_result",
                                      "master_flow_orchestrator_action"},
             !.page = IF c.master_flow_result.action = "COMPLETE" THEN 3 ELSE @,
             !.rerun = (c.master_flow_result.action = "COMPLETE")]

\* The RETRY branch of page_2_llm_chat (lines 425-454).
retry_turn(w, rt, user_input, o) ==
    retry_done(classify([w EXCEPT !.request_description = user_input,
                                  !.last_turn.kind = "retry"],
                        user_input, rt, o.rag, o.llm, o.summary))

\* Lines 533-553: what the "more context" branch does with the classification c.
more_context_done(c) ==
    IF c.raised THEN [c.w EXCEPT !.raised = TRUE]
    ELSE [assistant_says(c.w, c.master_flow_result.response_text) EXCEPT
             !.master_llm_result = c.master_llm_result,
             !.master_flow_result = c.master_flow_result,
             !.master_flow_orchestrator_action = c.master_flow_result.action,
             !.session_keys = @ \cup {"master_llm_result", "master_flow_result",
                                      "master_flow_orchestrator_action"},
             !.page = IF c.master_flow_result.action = "COMPLETE" THEN 3 ELSE @,
             !.rerun = (c.master_flow_result.action = "COMPLETE")]

\* Lines 471-478 with the result of update_record ignored.
yes_update_unchecked(w, latest_result, ok) ==
    IF "record_id" \notin w.session_keys
    THEN st_notice(w, "warning", "Could not update Airtable")
    ELSE st_notice(update_record(w, w.record_id, "Request_Type", latest_result, ok).w,
                   "success", "Airtable updated: Request Type")

\* Lines 471-478: the store update of the "yes" branch, with its notices.
yes_update(w, latest_result, ok) ==
    IF "record_id" \notin w.session_keys
    THEN st_notice(w, "warning", "Could not update Airtable")
    ELSE LET u == update_record(w, w.record_id, "Request_Type", latest_result, ok)
         IN  IF u.success
             THEN st_notice(u.w, "success", "Airtable updated: Request Type")
             ELSE st_notice(u.w, "warning", "Could not update Airtable record.")

\* Lines 461-553: the branches on the intent parse_result of the user's reply.
chat_reply(w, rt, user_input, o, parse_result) ==
    LET user_response_type == py_strip(py_lower(parse_result.user_response_type))
        latest_result == w.master_llm_result.result
    IN  IF parse_result.raised THEN [w EXCEPT !.raised = TRUE]
        ELSE IF user_response_type = "yes"
        THEN IF latest_result = ""
             THEN st_notice(w, "warning", "No LLM result found. Please try again.")
             ELSE [assistant_says(yes_update(w, latest_result, o.ok),
                       << T("Done - I've updated the Request Type to **"),
                          V("latest_result", latest_result),
                          T("** in your ticket.") >>)
                   EXCEPT !.page = 3, !.rerun = TRUE]
        ELSE IF user_response_type = "no"
        THEN [assistant_says(w,
                  << T("Got it - keeping Request Type as **"),
                     V("request_type", w.request_type),
                     T("**. Finishing up now.") >>)
              EXCEPT !.page = 3, !.rerun = TRUE]
        ELSE IF user_response_type \in {"unrelated", "question"}
        THEN assistant_says(w, << V("parser_response", py_format(parse_result.response)) >>)
        ELSE IF user_response_type = "more context"
        THEN more_context_done(classify([w EXCEPT !.request_description = user_input],
                                        user_input, rt, o.rag, o.llm, o.summary))
        ELSE w

\* The CHATLLM branch of page_2_llm_chat (lines 459-553).
chat_parsed(w, rt, user_input, o, parse_result) ==
    chat_reply([w EXCEPT !.last_turn =
                    [@ EXCEPT !.kind = "chat",
                              !.intent = parse_result.user_response_type,
                              !.parser_calls = @ + 1,
                              !.retrievals = @ + (IF parse_result.retrieved THEN 1 ELSE 0)]],
               rt, user_input, o, parse_result)

chat_turn(w, rt, user_input, o) ==
    chat_parsed(w, rt, user_input, o,
                chat_response_parser_llm(o.parser, o.question_rag, o.answer))

\* Lines 377-414 of page_2_llm_chat: load the session and start the chat history.
page_2_open(w) ==
    IF "chat_history" \notin w.session_keys
    THEN [w EXCEPT !.session_keys = @ \cup {"chat_history"},
                   !.chat_history =
                       << [role |-> "assistant",
                           content |-> IF "master_flow_result" \in w.session_keys
                                       THEN w.master_flow_result.response_text
                                       ELSE << T("Let's continue your ticket. Could you please describe your request again?") >>] >>]
    ELSE w

\* Lines 416-553 of page_2_llm_chat: the user's message and the branch on the
\* action loaded at line 383.
page_2_input(w, master_flow_orchestrator_action_, rt, user_input, o) ==
    IF master_flow_orchestrator_action_ = "RETRY" THEN retry_turn(w, rt, user_input, o)
    ELSE IF master_flow_orchestrator_action_ = "CHATLLM" THEN chat_turn(w, rt, user_input, o)
    ELSE w

\* page_2_llm_chat without the return at lines 413-414.
page_2_llm_chat_no_return(w, user_input, o) ==
    page_2_input(
        [page_2_open(w) EXCEPT
             !.chat_history =
                 Append(@, [role |-> "user", content |-> << V("user_input", user_input) >>]),
             !.last_turn.user_input = user_input],
        IF "master_flow_result" \in w.session_keys THEN w.master_flow_result.action ELSE "",
        w.request_type, user_input, o)

\* page_2_llm_chat; user_input is "" when the run has no chat input.
page_2_llm_chat(w, user_input, o) ==
    IF user_input = "" THEN page_2_open(w)
    ELSE page_2_input(
             [page_2_open(w) EXCEPT
                  !.chat_history =
                      Append(@, [role |-> "user", content |-> << V("user_input", user_input) >>]),
                  !.last_turn.user_input = user_input],
             IF "master_flow_result" \in w.session_keys THEN w.master_flow_result.action ELSE "",
             w.request_type, user_input, o)

\* Lines 340-350: the ticket is created in the store and its id kept.
page_1_create(w, cr) ==
    IF cr.id # ""
    THEN st_notice(st_notice([cr.w EXCEPT !.record_id = cr.id,
                                          !.session_keys = @ \cup {"record_id"}],
                             "success", "Ticket successfully created in Airtable!"),
                   "info", "Record ID")
    ELSE st_notice(cr.w, "error", "Failed to create Airtable record.")

\* Lines 353-361: the routing on the decision of the classification c.
page_1_route(w, c) ==
    IF c.master_flow_result.action = "COMPLETE"
    THEN [w EXCEPT !.page = 3, !.rerun = TRUE]
    ELSE IF c.master_flow_result.action \in {"CHATLLM", "RETRY"}
    THEN [w EXCEPT !.master_flow_result = c.master_flow_result,
                   !.master_llm_result = c.master_llm_result,
                   !.session_keys = @ \cup {"master_flow_result", "master_llm_result"},
                   !.page = 2, !.rerun = TRUE]
    ELSE w

\* Lines 335-361: what the Next button does with the classification c.
page_1_done(c, rt, rd, ok) ==
    IF c.raised THEN [c.w EXCEPT !.raised = TRUE]
    ELSE page_1_route(
             page_1_create(c.w,
                 create_main_record(
                     IF "original_request_description" \notin c.w.session_keys
                     THEN [c.w EXCEPT !.original_request_description = rd,
                                      !.session_keys = @ \cup {"original_request_description"}]
                     ELSE c.w,
                     [Request_Type |-> rt, Request_Description |-> rd], ok)),
             c)

\* The Next button of page_1_ticket_form (lines 312-361) with the form's
\* request type rt and description rd.
page_1_ticket_form(w, rt, rd, o) ==
    page_1_done(classify([w EXCEPT !.request_type = rt, !.request_description = rd,
                                   !.last_turn.kind = "form",
                                   !.session_keys = @ \cup {"request_type", "request_description"}],
                         rd, rt, o.rag, o.llm, o.summary),
                rt, rd, o.ok)

(***************************************************************************)
(* Spec: one browser session of app_5_streamlit.py                         *)
(***************************************************************************)
\* A generator answer holding one object with a label and a confidence.
Verdict(label, confidence) ==
    Answered(<< LBrace, Member("result", label), Member("result_confidence", confidence),
                Member("result_summary", JStr("A summary")), RBrace >>)

\* What retrieval and the generator answer to master_llm during a session.
SessionRag == { master_rag(RetrievalFailed, Retrieved(<< >>)),
                master_rag(Retrieved(<< >>), Retrieved(<< >>)),
                master_rag(Retrieved(<< ChunkA >>), Retrieved(<< >>)) }

SessionLlm == { Answered(<< Text >>),
                Verdict(JNull, JInt(80)),
                Verdict(JStr("Make New Package"), JStr("high")),
                Verdict(JStr("Make New Package"), JInt(60)),
                Verdict(JStr("Make New Package"), JInt(95)),
                Verdict(JStr("Publish Artwork to Platform"), JInt(95)),
                Verdict(JStr(USER_UNSURE), JInt(95)) }

\* What the form and the chat box are filled with.
SessionTypes == { "Make New Package", USER_UNSURE }
SessionDescriptions == { "Please add episodes 3-7 to the package" }
UserInputs == { "It is a new season package", "yes" }

\* What the generator answers to the intent classification of a chat message.
Intent(t) == Answered(<< LBrace, Member("user_response_type", JStr(t)),
                         Member("response", JStr("Understood.")), RBrace >>)

ParserOutcomes == { GenerationFailed, Answered(<< Text >>),
                    Intent("Yes"), Intent("no"), Intent("question"),
                    Intent(" more context "), Intent("maybe") }

AnswerOutcomes == { [raised |-> TRUE, content |-> ""],
                    [raised |-> FALSE, content |-> " Packages group episodes. "] }

\* Which of the two final updates the store accepts.
FinalOutcomes == [description : BOOLEAN, chat : BOOLEAN]

\* The collaborators' answers to one script run.
Oracles(rag, llm, summary, parser, question_rag, answer, ok) ==
    [rag |-> rag, llm |-> llm, summary |-> summary, parser |-> parser,
     question_rag |-> question_rag, answer |-> answer, ok |-> ok,
     fin |-> [description |-> FALSE, chat |-> FALSE]]

NoOracles == Oracles(NoEnv.rag, GenerationFailed, NoEnv.summary, GenerationFailed,
                     NoEnv.rag, [raised |-> TRUE, content |-> ""], FALSE)

\* The number of messages the user has typed into the chat.
UserTurns == Cardinality({ i \in 1..Len(chat_history) : chat_history[i].role = "user" })

\* The dispatch at the end of the script (lines 733-740) for a run without
\* widget input: page 2 returns at line 414, page 1 only draws its form.
run_idle(w, fin) ==
    IF w.page = 2 THEN page_2_llm_chat(w, "", NoOracles)
    ELSE IF w.page = 3 THEN page_3_confirmation(w, fin)
    ELSE w

\* st.rerun(): the script starts over on the page the session now names, with no
\* widget input.  An uncaught exception ends the run and is shown as a notice.
after_run(w, fin) ==
    IF w.raised THEN st_notice(w, "exception", "Traceback")
    ELSE IF w.rerun THEN run_idle([w EXCEPT !.rerun = FALSE], fin)
    ELSE w

\* The session takes over what a script run left.
Commit(w) ==
    /\ page' = w.page
    /\ session_keys' = w.session_keys
    /\ FIRST_PASS_DONE' = w.FIRST_PASS_DONE
    /\ request_type' = w.request_type
    /\ request_description' = w.request_description
    /\ original_request_description' = w.original_request_description
    /\ master_llm_result' = w.master_llm_result
    /\ master_flow_result' = w.master_flow_result
    /\ master_flow_orchestrator_action' = w.master_flow_orchestrator_action
    /\ record_id' = w.record_id
    /\ chat_history' = w.chat_history
    /\ final_updates_done' = w.final_updates_done
    /\ airtable' = w.airtable
    /\ airtable_calls' = w.airtable_calls
    /\ notices' = w.notices
    /\ last_call' = w.last_call
    /\ history' = w.history
    /\ last_turn' = w.last_turn
    /\ UNCHANGED <<pc, env>>
    /\ UNCHANGED rag_vars

Init ==
    /\ pc = "session"
    /\ page = 1
    /\ session_keys = {"page"}
    /\ FIRST_PASS_DONE = FALSE
    /\ request_type = ""
    /\ request_description = ""
    /\ master_llm_result = NoResult
    /\ master_flow_result = NoFlow
    /\ env = NoEnv
    /\ last_call = NoCall
    /\ history = NoHistory
    /\ UiStart
    /\ RagStart

\* The end of a script run that left w: the final updates of page 3 ask the
\* store only when the run ends in a rerun onto page 3.
Finish(w) ==
    \E fin \in (IF ~w.raised /\ w.rerun /\ w.page = 3 THEN FinalOutcomes ELSE {NoOracles.fin}) :
       Commit(after_run(w, fin))

\* Page 1: the user fills the form and presses Next.
SubmitTicket ==
    /\ pc = "session" /\ page = 1
    /\ history.calls < MaxCalls
    /\ \E rt \in SessionTypes, rd \in SessionDescriptions, rag \in SessionRag,
          llm \in SessionLlm, summary \in SummaryOutcomes, ok \in BOOLEAN :
          Finish(page_1_ticket_form(World, rt, rd,
                     Oracles(rag, llm, summary, GenerationFailed, NoEnv.rag,
                             NoOracles.answer, ok)))

\* Page 2 while the last decision is RETRY: the user types a new description.
RetryTurn ==
    /\ pc = "session" /\ page = 2
    /\ "master_flow_result" \in session_keys /\ master_flow_result.action = "RETRY"
    /\ history.calls < MaxCalls /\ UserTurns < MaxTurns
    /\ \E u \in UserInputs, rag \in SessionRag, llm \in SessionLlm,
          summary \in SummaryOutcomes :
          Finish(page_2_llm_chat(World, u,
                     Oracles(rag, llm, summary, GenerationFailed, NoEnv.rag,
                             NoOracles.answer, FALSE)))

\* The answers the collaborators can give to a reply whose intent is t: only
\* those the intent's branch reaches are given a choice.
ChatOracles(parser, t) ==
    IF t = "yes"
    THEN { Oracles(NoEnv.rag, GenerationFailed, NoEnv.summary, parser, NoEnv.rag,
                   NoOracles.answer, ok) : ok \in BOOLEAN }
    ELSE IF t = "question"
    THEN { Oracles(NoEnv.rag, GenerationFailed, NoEnv.summary, parser, question_rag,
                   answer, FALSE) :
               question_rag \in SessionRag, answer \in AnswerOutcomes }
    ELSE IF t = "more context"
    THEN IF history.calls < MaxCalls
         THEN { Oracles(rag, llm, summary, parser, NoEnv.rag, NoOracles.answer, FALSE) :
                    rag \in SessionRag, llm \in SessionLlm, summary \in SummaryOutcomes }
         ELSE { }
    ELSE { Oracles(NoEnv.rag, GenerationFailed, NoEnv.summary, parser, NoEnv.rag,
                   NoOracles.answer, FALSE) }

\* A chat reply handled whatever page the session is on.
ChatTurn_on_any_page ==
    /\ pc = "session"
    /\ "master_flow_result" \in session_keys /\ master_flow_result.action = "CHATLLM"
    /\ UserTurns < MaxTurns
    /\ \E u \in UserInputs, parser \in ParserOutcomes :
          \E o \in ChatOracles(parser,
                       chat_response_parser_llm(parser, NoEnv.rag,
                                                NoOracles.answer).user_response_type) :
             Finish(page_2_llm_chat(World, u, o))

\* Page 2 while the last decision is CHATLLM: the user replies to the assistant.
ChatTurn ==
    /\ pc = "session" /\ page = 2
    /\ "master_flow_result" \in session_keys /\ master_flow_result.action = "CHATLLM"
    /\ UserTurns < MaxTurns
    /\ \E u \in UserInputs, parser \in ParserOutcomes :
          \E o \in ChatOracles(parser,
                       chat_response_parser_llm(parser, NoEnv.rag,
                                                NoOracles.answer).user_response_type) :
             Finish(page_2_llm_chat(World, u, o))

\* The script runs again without widget input (the browser reloads the page).
Reload ==
    /\ pc = "session"
    /\ \E fin \in (IF page = 3 THEN FinalOutcomes ELSE {NoOracles.fin}) :
          Commit(after_run(run_idle(World, fin), fin))

Next == SubmitTicket \/ RetryTurn \/ ChatTurn \/ Reload

Spec == Init /\ [][Next]_vars

(***************************************************************************)
(* SpecParser: chat_response_parser_llm applied to every answer of its     *)
(* collaborators                                                           *)
(***************************************************************************)
\* Values the generator may put under "user_response_type".
IntentValues ==
    { JStr(CHAT_RESPONSE_PARSER_CATEGORIES[i]) : i \in 1..Len(CHAT_RESPONSE_PARSER_CATEGORIES) }
        \cup { JStr("Yes"), JStr("NO"), JStr(" no "), JStr("More Context"), JStr(" question "),
               JStr("maybe"), JStr(""), JNull, JInt(3), JBool(TRUE), JList }

\* Values the generator may put under "response".
ResponseValues == { JStr("Understood."), JStr(""), JNull }

\* The members of one decodable object.
IntentMemberLists ==
    LET ts == { << >> } \cup { << Member("user_response_type", v) >> : v \in IntentValues }
        rs == { << >> } \cup { << Member("response", v) >> : v \in ResponseValues }
    IN  { t \o r : t \in ts, r \in rs }
            \cup { << Member("user_response_type", JStr("maybe")),
                      Member("response", JStr("Understood.")),
                      Member("user_response_type", JStr("yes")) >> }

\* What the classification call can answer.
IntentCallOutcomes ==
    { GenerationFailed }
        \cup { Answered(raw) : raw \in UndecodableRaw }
        \cup { Answered(<< LBrace >> \o m \o << RBrace >>) : m \in IntentMemberLists }
        \cup { Answered(<< Text, LBrace >> \o m \o << RBrace, Text >>) : m \in IntentMemberLists }

InitParser ==
    /\ pc = "parser_input"
    /\ page = 2
    /\ session_keys = {"page"}
    /\ FIRST_PASS_DONE = FALSE
    /\ request_type = ""
    /\ request_description = ""
    /\ master_llm_result = NoResult
    /\ master_flow_result = NoFlow
    /\ env \in [llm : IntentCallOutcomes, rag : SessionRag, answer : AnswerOutcomes]
    /\ last_call = NoCall
    /\ history = NoHistory
    /\ UiStart
    /\ RagStart

CallParser ==
    /\ pc = "parser_input"
    /\ last_call' = chat_response_parser_llm(env.llm, env.rag, env.answer)
    /\ pc' = "parser_done"
    /\ UNCHANGED <<page, session_keys, FIRST_PASS_DONE, request_type, request_description,
                   master_llm_result, master_flow_result, env, history>>
    /\ UNCHANGED ui_vars
    /\ UNCHANGED rag_vars

NextParser == CallParser

SpecParser == InitParser /\ [][NextParser]_vars

(***************************************************************************)
(* Claims about master_llm (SpecLLM)                                      *)
(***************************************************************************)
LLMReturned == pc = "llm_done" /\ ~last_call.raised

\* The generator answered (the response is malformed or not, but it exists).
GeneratorAnswered == pc = "llm_done" /\ ~env.rag.raised /\ ~env.llm.raised

\* What json.loads makes of the text the generator returned.
Decoded == json_loads(py_slice(env.llm.content, py_find(env.llm.content, LBrace),
                               py_rfind(env.llm.content, RBrace) + 1))

\* C1: whenever master_llm returns a Classification Result, its label is one of
\* the four ticket categories or one of the two error sentinels.
C1_CategoryClosure ==
    LLMReturned => master_llm_result.result \in Categories \cup Sentinels

\* C1 witness: the generator named a category outside the fixed set and master_llm
\* returned the categorization sentinel for it.
C1_Witness ==
    /\ LLMReturned
    /\ ~Decoded.raised
    /\ py_get(Decoded.data, "result", JStr("")) = JStr("Something Else")
    /\ master_llm_result.result = LLM_CATEGORIZATION_ERROR

\* C2: for every raw output of the generator (undecodable, or an object whose
\* result / result_confidence is missing, null or of the wrong type) master_llm
\* returns a Classification Result and raises nothing.
C2_NeverRaisesOnMalformed ==
    GeneratorAnswered => ~last_call.raised

\* C3: when the raw output cannot be decoded, master_llm returns the label
\* "LLM JSON ERROR" with confidence 0.
C3_UndecodableGivesJsonError ==
    (GeneratorAnswered /\ Decoded.raised) =>
        /\ ~last_call.raised
        /\ master_llm_result.result = LLM_JSON_ERROR
        /\ master_llm_result.result_confidence = 0

(***************************************************************************)
(* Claims about master_flow_orchestrator (SpecOrch)                        *)
(***************************************************************************)
OrchDone == pc = "orch_done"

OrchReturned == OrchDone /\ ~last_call.raised

\* The evidence, sentinel and confidence checks all pass.
ChecksPass(r) ==
    /\ r.RAG_combined_total_chunk_number > 0
    /\ r.result \notin Sentinels
    /\ r.result_confidence > 60

\* A response text holds the value v of the f-string variable f.
Mentions(text, f, v) == \E i \in 1..Len(text) : text[i] = V(f, v)

\* C4: chunk count 0, an error sentinel or confidence <= 60 each give RETRY,
\* whatever the chosen label and is_first_pass are.
C4_ErrorsOutrankMatch ==
    OrchDone =>
        (( \/ master_llm_result.RAG_combined_total_chunk_number = 0
           \/ master_llm_result.result \in Sentinels
           \/ master_llm_result.result_confidence <= 60 )
         => (~last_call.raised /\ master_flow_result.action = "RETRY"))

\* C4 witness: no evidence, confidence 95, a label equal to the chosen one, RETRY.
C4_Witness ==
    /\ OrchDone
    /\ master_llm_result.RAG_combined_total_chunk_number = 0
    /\ master_llm_result.result_confidence = 95
    /\ master_llm_result.result = request_type
    /\ master_flow_result.action = "RETRY"

\* C5: with evidence and a valid category, confidences 0..60 give RETRY and
\* confidences 61..100 with a matching label give COMPLETE.
C5_ConfidenceBoundary ==
    (/\ OrchDone
     /\ master_llm_result.RAG_combined_total_chunk_number > 0
     /\ master_llm_result.result \in Categories) =>
        /\ master_llm_result.result_confidence \in 0..60
              => master_flow_result.action = "RETRY"
        /\ (/\ master_llm_result.result_confidence \in 61..100
            /\ master_llm_result.result = request_type)
              => master_flow_result.action = "COMPLETE"

\* C5 witness: confidence exactly 60 on a matching valid label is retried.
C5_Witness ==
    /\ OrchDone
    /\ master_llm_result.RAG_combined_total_chunk_number > 0
    /\ master_llm_result.result \in Categories
    /\ master_llm_result.result = request_type
    /\ master_llm_result.result_confidence = 60
    /\ master_flow_result.action = "RETRY"

\* C6: COMPLETE exactly when there is evidence, the label is no sentinel,
\* confidence > 60 and the label equals the chosen label character for character.
C6_CompleteIff ==
    OrchDone =>
        ( (~last_call.raised /\ master_flow_result.action = "COMPLETE")
          <=> (ChecksPass(master_llm_result) /\ master_llm_result.result = request_type) )

\* C6 witness: the chosen label differs from the suggested one only in case, and
\* the decision is not COMPLETE.
C6_Witness ==
    /\ OrchReturned
    /\ ChecksPass(master_llm_result)
    /\ master_llm_result.result = "Make New Package"
    /\ request_type = "make new package"
    /\ master_flow_result.action # "COMPLETE"

\* The first-pass mismatch case of C9.
MismatchCase ==
    /\ OrchDone
    /\ master_llm_result.is_first_pass
    /\ ChecksPass(master_llm_result)
    /\ master_llm_result.result # request_type
    /\ request_type # USER_UNSURE

UnsureCase ==
    /\ OrchDone
    /\ master_llm_result.is_first_pass
    /\ ChecksPass(master_llm_result)
    /\ request_type = USER_UNSURE

\* C10: in the first-pass unsure case the decision is CHATLLM / USER_UNSURE_LLM; its
\* text holds the suggested label and its summary, and neither the chosen label
\* nor a summary of it.
C10_UnsureFlow ==
    UnsureCase =>
        /\ ~last_call.raised
        /\ master_flow_result.action = "CHATLLM"
        /\ master_flow_result.flow_type = "USER_UNSURE_LLM"
        /\ Mentions(master_flow_result.response_text, "result", master_llm_result.result)
        /\ Mentions(master_flow_result.response_text, "result_summary",
                    py_format(master_llm_result.result_summary))
        /\ \A i \in 1..Len(master_flow_result.response_text) :
              /\ master_flow_result.response_text[i].f \notin {"request_type", "request_type_summary"}
              /\ master_flow_result.response_text[i].s # request_type
        /\ last_call.summarized = << >>

\* C10 witness: an unsure first pass answered with the guidance text.
C10_Witness ==
    /\ UnsureCase
    /\ master_flow_result.flow_type = "USER_UNSURE_LLM"
    /\ Len(master_flow_result.response_text) > 0

(***************************************************************************)
(* Claims about a session (Spec)                                           *)
(***************************************************************************)
\* The last script run called master_llm and got a Classification Result.
Classified == pc = "session" /\ last_call.fn = "master_llm" /\ ~last_call.raised

FirstPassFlows == { "USER_UNSURE_LLM", "MISMATCH_LLM" }

\* C7: within a session the first Classification Result has is_first_pass = TRUE
\* and every later one has is_first_pass = FALSE; FIRST_PASS_DONE is set at most
\* once and never reset.
C7_FirstPassMonotone ==
    /\ Classified => (last_call.result.is_first_pass <=> history.results = 1)
    /\ history.flag_sets <= 1
    /\ history.flag_resets = 0

\* C8: a Classification Result after the first of the session that passes the
\* evidence, sentinel and confidence checks and differs from the chosen label is
\* answered with CHATLLM / MORE_CONTEXT_LLM and the "based on the new context"
\* text; the first-pass flows come only from the first Classification Result,
\* so at most once in a session.
C8_LaterPassMoreContext ==
    /\ ( /\ Classified
         /\ history.results > 1
         /\ ChecksPass(last_call.result)
         /\ last_call.result.result # last_call.chosen )
       => /\ last_call.flow.action = "CHATLLM"
          /\ last_call.flow.flow_type = "MORE_CONTEXT_LLM"
          /\ last_call.flow.response_text
                = more_context_msg(last_call.result.result, last_call.result.result_summary)
    /\ (Classified /\ last_call.flow.flow_type \in FirstPassFlows) => history.results = 1
    /\ history.first_pass_flows <= 1

\* C8 witness: after a first-pass mismatch the user gave more context, and the
\* second classification, again a mismatch, got the new-context proposal.
C8_Witness ==
    /\ Classified
    /\ history.results = 2
    /\ history.first_pass_flows = 1
    /\ ChecksPass(last_call.result)
    /\ last_call.result.result # last_call.chosen
    /\ last_call.flow.flow_type = "MORE_CONTEXT_LLM"
    /\ page = 2
    /\ Len(chat_history) = 3

(***************************************************************************)
(* Claims about retrieval fusion (SpecRag)                                 *)
(***************************************************************************)
\* master_rag returned an evidence bundle.
RagReturned == pc = "rag" /\ rag_pc = "returned"

\* The lexical entries fusion must include: those whose title is neither a
\* semantic entry's title nor the title of an earlier lexical entry.
IncludedLexical(sem, kw) ==
    { j \in 1..Len(kw) :
         /\ \A i \in 1..Len(sem) : sem[i].chunk_title # kw[j].chunk_title
         /\ \A h \in 1..(j - 1) : kw[h].chunk_title # kw[j].chunk_title }

\* The entries of l at the indices J, in the order of l.
EntriesAt(l, J) ==
    [n \in 1..Cardinality(J) |-> l[CHOOSE j \in J : Cardinality({h \in J : h < j}) = n - 1]]

\* The entries fusion must include, in order.
ExpectedEntries(sem, kw) == sem \o EntriesAt(kw, IncludedLexical(sem, kw))

\* C11: the bundle holds every semantic entry in the given order, then each lexical
\* entry whose title is not yet included; on a title collision the lexical entry
\* is left out and the combined text holds the semantic entry's text.
C11_FusionDedup ==
    RagReturned =>
        LET sem == env.semantic.chunks
            kw  == env.keyword.chunks
            exp == ExpectedEntries(sem, kw)
            out == RAG_result.RAG_result
        IN  /\ out.RAG_combined_id = py_join(" + ", [i \in 1..Len(exp) |-> exp[i].chunk_id])
            /\ out.RAG_combined_title
                  = py_join(" + ", [i \in 1..Len(exp) |-> exp[i].chunk_title])
            /\ out.RAG_combined_text
                  = py_join("\n\n---\n\n",
                            [i \in 1..Len(exp) |->
                                "### " \o exp[i].chunk_title \o "\n" \o exp[i].chunk_text])
            /\ \A j \in 1..Len(kw) :
                  (\E i \in 1..Len(sem) : sem[i].chunk_title = kw[j].chunk_title)
                      => \A n \in 1..Len(exp) : exp[n] # kw[j]

\* C11 witness: a lexical entry collides with a semantic title and is left out,
\* another one is included after the semantic entries.
C11_Witness ==
    /\ RagReturned
    /\ env.semantic.chunks = << ChunkA, ChunkB >>
    /\ env.keyword.chunks = << ChunkA2, ChunkC >>
    /\ RAG_result.RAG_result.RAG_combined_id = "sem-1 + sem-2 + kw-3"

\* C12: the bundle's chunk count is 0 exactly when both result lists are empty, and
\* it is the number of entries included after deduplication.
C12_ChunkCount ==
    RagReturned =>
        LET sem == env.semantic.chunks
            kw  == env.keyword.chunks
            n   == RAG_result.RAG_result.RAG_combined_total_chunk_number
        IN  /\ (n = 0) <=> (sem = << >> /\ kw = << >>)
            /\ n = Len(sem) + Cardinality(IncludedLexical(sem, kw))

\* C12 witness: three entries retrieved, two counted.
C12_Witness ==
    /\ RagReturned
    /\ Len(env.semantic.chunks) + Len(env.keyword.chunks) = 3
    /\ RAG_result.RAG_result.RAG_combined_total_chunk_number = 2

\* Both pool threads have settled: each future holds its reader's outcome.
BothSettled == future_semantic.state = "finished" /\ future_keyword.state = "finished"

\* C13: in every interleaving, combine_results runs, and master_rag returns or
\* raises, only after both readers have finished or failed; no bundle exists
\* before that.
C13_FusionAfterBothSettle ==
    /\ (pc = "rag" /\ rag_pc \in {"combine", "returned", "raised"}) => BothSettled
    /\ (pc = "rag" /\ RAG_result # NoBundle) => BothSettled

\* C13 witness: the semantic reader failed, the keyword reader did not, and
\* master_rag raised with the keyword reader's future settled.
C13_Witness ==
    /\ pc = "rag" /\ rag_pc = "raised"
    /\ env.semantic.raised /\ ~env.keyword.raised
    /\ future_keyword = Future("finished", env.keyword)
    /\ Len(env.keyword.chunks) > 0

\* A failed channel read as an empty result list.
Degraded(outcome) == IF outcome.raised THEN << >> ELSE outcome.chunks

\* C14: when a reader fails, master_rag does not raise; it returns the bundle of
\* the other channel's results, the failed channel counting as empty.
C14_DegradedMode ==
    (pc = "rag" /\ rag_pc \in {"returned", "raised"}
        /\ (env.semantic.raised \/ env.keyword.raised))
    => /\ ~RAG_result.raised
       /\ RAG_result.RAG_result
             = combine_results(Degraded(env.semantic), Degraded(env.keyword))

(***************************************************************************)
(* Claims about the keyword reader (SpecKeyword)                           *)
(***************************************************************************)
\* rag_retrieve_keyword returned a result list.
KeywordReturned == pc = "keyword_done" /\ ~future_keyword.outcome.raised

\* The rows of the store that hold at least one query token in title or text.
Candidates ==
    { j \in 1..Len(env.rag_chunks) : where_clause(env.rag_chunks[j], tokenize(env.words)) }

\* C15: the result holds at most top_k entries in descending score order, and they
\* are the top_k highest-scoring rows among all rows of the store that hold a
\* query token, with score = sum over tokens of (count in text + 2 * count in title).
C15_TopKByScore ==
    KeywordReturned =>
        LET res == future_keyword.outcome.chunks
            kws == tokenize(env.words)
        IN  /\ Len(res) <= env.top_k
            /\ \A i \in 1..(Len(res) - 1) : res[i].chunk_score >= res[i + 1].chunk_score
            /\ \A i \in 1..Len(res) :
                  \E j \in Candidates : res[i] = ScoredChunk(env.rag_chunks[j], kws)
            /\ Len(res) = IF Cardinality(Candidates) < env.top_k
                          THEN Cardinality(Candidates) ELSE env.top_k
            /\ \A j \in Candidates :
                  \/ \E i \in 1..Len(res) : res[i].chunk_id = env.rag_chunks[j].id
                  \/ \A i \in 1..Len(res) :
                        res[i].chunk_score >= chunk_score(env.rag_chunks[j], kws)

(***************************************************************************)
(* Claims about chat_response_parser_llm (SpecParser)                      *)
(***************************************************************************)
ParserDone == pc = "parser_done"

Intents == { "yes", "no", "unrelated", "question", "more context" }

\* The spellings of an intent that lower-casing and stripping accept.
AcceptedSpellings ==
    Intents \cup { "Yes", "NO", " no ", "More Context", " question " }

\* The classification call failed, its output does not decode, the intent field
\* is missing, or the field holds something that is no spelling of an intent.
FoldCase ==
    \/ env.llm.raised
    \/ Decoded.raised
    \/ \A i \in 1..Len(Decoded.data) : Decoded.data[i].k # "user_response_type"
    \/ LET v == py_get(Decoded.data, "user_response_type", JStr(""))
       IN  v.ty # "str" \/ v.s \notin AcceptedSpellings

\* C16: every user_response_type chat_response_parser_llm returns is one of the five
\* intents; a failed classification call, an undecodable output, a missing field
\* and a value outside the intents are each answered with "unrelated".
C16_IntentClosure ==
    ParserDone =>
        /\ ~last_call.raised => last_call.user_response_type \in Intents
        /\ FoldCase => (~last_call.raised /\ last_call.user_response_type = "unrelated")

\* C16 witness: the model named an intent outside the five and the parser
\* answered "unrelated".
C16_Witness ==
    /\ ParserDone
    /\ ~env.llm.raised /\ ~Decoded.raised
    /\ py_get(Decoded.data, "user_response_type", JStr("")) = JStr("maybe")
    /\ last_call.user_response_type = "unrelated"

\* C17: master_rag is called exactly when the validated intent is "question"; an
\* unrelated message gets the fixed deflection text whatever response the model
\* supplied; "yes" and "no" retrieve nothing.
C17_RetrievalOnlyForQuestion ==
    ParserDone =>
        /\ last_call.retrieved => (last_call.raised \/ last_call.user_response_type = "question")
        /\ (~last_call.raised /\ last_call.user_response_type = "question")
              => last_call.retrieved
        /\ last_call.user_response_type = "unrelated"
              => /\ ~last_call.retrieved
                 /\ last_call.response
                       = JStr("I'm sorry, but I can only assist with SkyShowtime imagery production requests.")
        /\ last_call.user_response_type \in {"yes", "no"} => ~last_call.retrieved
        /\ last_call.raised => (env.rag.raised /\ ~FoldCase)

\* C17 witness: a question was answered from retrieved context.
C17_Witness ==
    /\ ParserDone
    /\ last_call.user_response_type = "question"
    /\ last_call.retrieved
    /\ ~env.answer.raised
    /\ last_call.response = JStr("Packages group episodes.")

(***************************************************************************)
(* Claims about the chat turns of a session (Spec)                         *)
(***************************************************************************)
\* The write requests the step issued to the store.
Issued == SubSeq(airtable_calls', Len(airtable_calls) + 1, Len(airtable_calls'))

IsTypeUpdate(c) == c.op = "update" /\ c.field = "Request_Type"

TypeUpdates == SelectSeq(Issued, IsTypeUpdate)

\* The step is a chat message under the CHATLLM decision that the intent parser
\* classified as t.
ChatStep(t) == last_turn'.kind = "chat" /\ last_turn'.intent = t

\* C18: under the CHATLLM decision a "yes" or "no" turn ends the conversation in
\* that turn: the session is on the confirmation page and master_llm was not
\* called; "yes" issues one Request Type update carrying the label of the most
\* recent classification; "no" issues none and keeps the chosen label.
C18_YesNoEndTheChat ==
    [][ /\ (ChatStep("yes") \/ ChatStep("no"))
             => (page' = 3 /\ last_turn'.master_llm_calls = 0 /\ last_turn'.parser_calls = 1)
        /\ ChatStep("yes")
             => /\ Len(TypeUpdates) = 1
                /\ TypeUpdates[1].value = history.latest
        /\ ChatStep("no")
             => /\ TypeUpdates = << >>
                /\ request_type' = request_type
                /\ airtable'.Request_Type = airtable.Request_Type ]_vars

\* C19: under the CHATLLM decision a "more context" turn puts the user's message
\* in place of the request text, calls master_llm and master_flow_orchestrator
\* once on it with is_first_pass = FALSE, and stores the new result and decision
\* in the session; the next chat message is handled by the branch of the stored
\* action, and COMPLETE ends on the confirmation page.
C19_MoreContextReclassifies ==
    [][ /\ ChatStep("more context")
             => /\ request_description' = last_turn'.user_input
                /\ last_turn'.master_llm_calls = 1
                /\ history'.calls = history.calls + 1
                /\ ~last_call'.raised
                /\ ~last_call'.result.is_first_pass
                /\ master_llm_result' = last_call'.result
                /\ master_flow_result' = last_call'.flow
                /\ master_flow_orchestrator_action' = last_call'.flow.action
                /\ page' = (IF last_call'.flow.action = "COMPLETE" THEN 3 ELSE 2)
        /\ last_turn'.kind = "retry" => (page = 2 /\ master_flow_result.action = "RETRY")
        /\ last_turn'.kind = "chat" => (page = 2 /\ master_flow_result.action = "CHATLLM") ]_vars

\* The step is a script run that was given neither the form nor a chat message.
NoUserMessage == last_turn'.kind # "form" /\ last_turn'.user_input = ""

\* C20: a form submission or chat message calls master_llm at most once, and a
\* script run without a new user message, in particular one under the RETRY
\* decision, calls neither master_llm nor the intent parser nor master_rag and
\* leaves result and decision as they are.
C20_NoSilentReclassification ==
    [][ /\ last_turn'.master_llm_calls <= 1
        /\ history'.calls = history.calls + last_turn'.master_llm_calls
        /\ NoUserMessage
             => /\ last_turn'.master_llm_calls = 0
                /\ last_turn'.parser_calls = 0
                /\ last_turn'.retrievals = 0
                /\ master_llm_result' = master_llm_result
                /\ master_flow_result' = master_flow_result ]_vars

\* C20 witness: the decision is RETRY and the script ran again without a message;
\* the one master_llm call of the session is that of the form submission.
C20_Witness ==
    /\ page = 2
    /\ master_flow_result.action = "RETRY"
    /\ last_turn.kind = "idle"
    /\ history.calls = 1

(***************************************************************************)
(* Claims about the store writes of a session (Spec)                       *)
(***************************************************************************)
\* The step's script run showed a notice of this kind and text.
Noticed(kind, text) == \E i \in 1..Len(notices') : notices'[i] = [kind |-> kind, text |-> text]

\* The notice with which the caller of a store write reports its failure.
FailureNotice(c) ==
    IF c.op = "create" THEN Noticed("error", "Failed to create Airtable record.")
    ELSE IF c.field = "Request_Type" THEN Noticed("warning", "Could not update Airtable record.")
    ELSE IF c.field = "Request_Description"
         THEN Noticed("warning", "Failed to update Airtable Request Description.")
    ELSE Noticed("warning", "Failed to update Chatbot Chat History.")

C22_OrchestratorTotal ==
    OrchDone =>
        /\ ~last_call.raised
        /\ master_flow_result # NoFlow
        /\ master_flow_result.response_text # << >>
        /\ master_flow_result.action \in {"RETRY", "COMPLETE", "CHATLLM"}

(***************************************************************************)
(* Claims about the confirmation page (Spec)                               *)
(***************************************************************************)
\* The positions of the write requests for a field.
UpdatesOf(field) ==
    { i \in 1..Len(airtable_calls) :
          airtable_calls[i].op = "update" /\ airtable_calls[i].field = field }

\* C23: the Request Description that update_consolidated_request_description
\* writes lists the user's chat messages from the newest to the oldest and the
\* original request description last.
C23_NewestFirstOriginalLast ==
    \A i \in UpdatesOf("Request_Description") :
        airtable_calls[i].value
            = py_join("\n\n", py_reversed(user_contents(chat_history))
                                  \o << original_request_description >>)

\* C24: however often the confirmation page is drawn, the consolidated request
\* description and the chat history are each written at most once in a session.
C24_FinalUpdatesOnce ==
    /\ Cardinality(UpdatesOf("Request_Description")) <= 1
    /\ Cardinality(UpdatesOf("Chatbot_Chat_History")) <= 1

\* C24 witness: the confirmation page was drawn again after the two final
\* updates had been issued.
C24_Witness ==
    /\ page = 3
    /\ last_turn.kind = "idle"
    /\ final_updates_done
    /\ Cardinality(UpdatesOf("Request_Description")) = 1
    /\ Cardinality(UpdatesOf("Chatbot_Chat_History")) = 1

(***************************************************************************)
(* Claims about the two acceptance thresholds (SpecBoundary)               *)
(***************************************************************************)
\* Both implementations have answered for a category with evidence.
BoundaryCase ==
    pc = "boundary_done" /\ master_llm_result.RAG_combined_total_chunk_number > 0

App3Rejects == last_call.app_3.result = "Insufficient Context"

App5Rejects == ~last_call.raised /\ last_call.app_5.action = "RETRY"

\* C25: for a category with evidence rag_classify rejects exactly the confidences
\* below 60 and the orchestrator exactly those up to 60, so the two agree on
\* every confidence but 60, which only rag_classify accepts.
C25_ThresholdsDifferAt60 ==
    BoundaryCase =>
        LET conf == master_llm_result.result_confidence
        IN  /\ App3Rejects <=> conf < 60
            /\ App5Rejects <=> conf <= 60
            /\ (App3Rejects <=> App5Rejects) <=> conf # 60

\* C25 witness: at confidence 60 rag_classify keeps the label and the
\* orchestrator asks to retry.
C25_Witness ==
    /\ BoundaryCase
    /\ master_llm_result.result_confidence = 60
    /\ last_call.app_3.result = master_llm_result.result
    /\ last_call.app_5.action = "RETRY"

\* C26: once the session is on the confirmation page it stays there, and no
\* script run calls master_llm or the intent parser or writes the Request Type.
C26_CompleteIsTerminal ==
    [][ page = 3
          => /\ page' = 3
             /\ last_turn'.master_llm_calls = 0
             /\ last_turn'.parser_calls = 0
             /\ last_turn'.retrievals = 0
             /\ history'.calls = history.calls
             /\ TypeUpdates = << >>
             /\ airtable'.Request_Type = airtable.Request_Type
             /\ master_llm_result' = master_llm_result
             /\ master_flow_result' = master_flow_result ]_vars

\* C26 witness: the confirmation page, reached through a "yes" turn that wrote
\* the Request Type, was drawn again.
C26_Witness ==
    /\ page = 3
    /\ last_turn.kind = "idle"
    /\ UpdatesOf("Request_Type") # { }

(***************************************************************************)
(* Claims about the chat loop of a session (Spec)                          *)
(***************************************************************************)
\* The decision the session holds is CHATLLM.
InChatLoop == "master_flow_result" \in session_keys /\ master_flow_result.action = "CHATLLM"

\* C27: while the session's decision is CHATLLM its classification has at least
\* one chunk, a label among the four categories, a confidence above 60 and a
\* label other than the chosen one; every Request Type a "yes" turn writes to
\* the store is therefore one of the four categories.
C27_ChatLoopInvariant ==
    /\ InChatLoop
          => /\ master_llm_result.RAG_combined_total_chunk_number > 0
             /\ master_llm_result.result \in Categories
             /\ master_llm_result.result_confidence > 60
             /\ master_llm_result.result # request_type
    /\ \A i \in UpdatesOf("Request_Type") : airtable_calls[i].value \in Categories

\* C27 witness: a "yes" turn wrote the label of the classification the chat loop
\* held.
C27_Witness ==
    /\ InChatLoop
    /\ last_turn.kind = "chat" /\ last_turn.intent = "yes"
    /\ \E i \in UpdatesOf("Request_Type") :
          airtable_calls[i].ok /\ airtable_calls[i].value = master_llm_result.result

\* The chat history after the step is the one before it with the user's message
\* and these further entries appended.
ChatGrewBy(entries) ==
    chat_history' = Append(chat_history,
                           [role |-> "user",
                            content |-> << V("user_input", last_turn'.user_input) >>]) \o entries

\* What a chat turn that is no "yes", "no" or "more context" leaves as it is.
ReplyFrame ==
    /\ master_llm_result' = master_llm_result
    /\ master_flow_result' = master_flow_result
    /\ master_flow_orchestrator_action' = master_flow_orchestrator_action
    /\ request_type' = request_type
    /\ request_description' = request_description
    /\ original_request_description' = original_request_description
    /\ FIRST_PASS_DONE' = FIRST_PASS_DONE
    /\ session_keys' = session_keys
    /\ page' = page
    /\ record_id' = record_id
    /\ airtable_calls' = airtable_calls
    /\ airtable' = airtable
    /\ history' = history
    /\ last_turn'.master_llm_calls = 0

\* C28: a CHATLLM turn classified "unrelated" or "question" appends the user's
\* message and the parser's reply to the chat history and nothing else: result,
\* decision, request text, first-pass flag and page stay as they are and no
\* store write is issued.
C28_ReplyOnlyAppends ==
    [][ (ChatStep("unrelated") \/ ChatStep("question"))
          => /\ ReplyFrame
             /\ master_flow_result'.action = "CHATLLM"
             /\ \E reply \in { "I'm sorry, but I can only assist with SkyShowtime imagery production requests.",
                               "Packages group episodes.",
                               "Sorry, I couldn't retrieve information right now." } :
                   ChatGrewBy(<< [role |-> "assistant",
                                  content |-> << V("parser_response", reply) >>] >>) ]_vars

\* C28 witness: a question was answered in the chat and the session is still on
\* page 2 under the CHATLLM decision.
C28_Witness ==
    /\ last_turn.kind = "chat" /\ last_turn.intent = "question"
    /\ page = 2 /\ InChatLoop
    /\ chat_history[Len(chat_history)]
          = [role |-> "assistant",
             content |-> << V("parser_response", "Packages group episodes.") >>]

\* The step handles a chat message while the session's decision is RETRY.
RetryStep == page = 2 /\ master_flow_result.action = "RETRY" /\ last_turn'.user_input # ""

\* C29: under the RETRY decision every chat message becomes the request
\* description and is classified by master_llm and master_flow_orchestrator,
\* never by the intent parser, and the new result and decision replace the
\* stored ones.
C29_RetryReclassifiesEveryMessage ==
    [][ RetryStep
          => /\ last_turn'.kind = "retry"
             /\ last_turn'.parser_calls = 0
             /\ last_turn'.master_llm_calls = 1
             /\ request_description' = last_turn'.user_input
             /\ ~last_call'.raised
             /\ master_llm_result' = last_call'.result
             /\ master_flow_result' = last_call'.flow
             /\ master_flow_orchestrator_action' = last_call'.flow.action
             /\ page' = (IF last_call'.flow.action = "COMPLETE" THEN 3 ELSE 2) ]_vars

(***************************************************************************)
(* Claims about the completion order of the readers (SpecRag)              *)
(***************************************************************************)
\* C30: whichever reader finishes first, master_rag hands each reader's own
\* result list to combine_results in the fixed order semantic, keyword: the
\* bundle returned is a function of the two result lists alone and starts with
\* the semantic entries.
C30_BundleIgnoresCompletionOrder ==
    RagReturned =>
        /\ semantic_result = env.semantic.chunks
        /\ keyword_result = env.keyword.chunks
        /\ RAG_result = [raised |-> FALSE,
                         RAG_result |-> combine_results(env.semantic.chunks,
                                                        env.keyword.chunks)]
        /\ \A o \in { << "semantic", "keyword" >>, << "keyword", "semantic" >> } :
              finish_order = o
                 => RAG_result.RAG_result.RAG_combined_id
                       = py_join(" + ",
                                 [i \in 1..Len(ExpectedEntries(semantic_result, keyword_result)) |->
                                     ExpectedEntries(semantic_result, keyword_result)[i].chunk_id])

\* C30 witness: the keyword reader finished first and the bundle still lists
\* the semantic entry before the lexical one.
C30_Witness ==
    /\ RagReturned
    /\ finish_order = << "keyword", "semantic" >>
    /\ env.semantic.chunks = << ChunkA >>
    /\ env.keyword.chunks = << ChunkC >>
    /\ RAG_result.RAG_result.RAG_combined_id = "sem-1 + kw-3"

(***************************************************************************)
(* Claims about the first-pass flag and the label of a session (Spec)      *)
(***************************************************************************)
\* The step called master_llm and the call raised.
RaisingCall == history'.calls = history.calls + 1 /\ last_call'.raised

\* C31: a master_llm call that raises leaves FIRST_PASS_DONE as it found it, so
\* the first Classification Result a session produces has is_first_pass = TRUE.
C31_RaiseKeepsFirstPassFlag ==
    [][ /\ RaisingCall
          => /\ FIRST_PASS_DONE' = FIRST_PASS_DONE
             /\ ("FIRST_PASS_DONE" \in session_keys') <=> ("FIRST_PASS_DONE" \in session_keys)
        /\ (history'.results = 1 /\ history.results = 0)
          => last_call'.result.is_first_pass ]_vars

\* The step is a "yes" turn whose Request Type update the store accepted.
YesStored == ChatStep("yes") /\ Len(TypeUpdates) = 1 /\ TypeUpdates[1].ok

\* C32: after a "yes" turn whose store update succeeds, the Request Type held in
\* the session (the one the confirmation page displays) is the Request Type
\* written to the store, the latest suggested label.
C32_SessionLabelFollowsStore ==
    [][ YesStored
          => /\ airtable'.Request_Type = history.latest
             /\ request_type' = airtable'.Request_Type ]_vars

\* The step appended the assistant's message that the Request Type has been
\* updated to the suggested label.
SaidUpdated ==
    \E i \in (Len(chat_history) + 1)..Len(chat_history') :
        /\ chat_history'[i].role = "assistant"
        /\ chat_history'[i].content[1] = T("Done - I've updated the Request Type to **")

\* C33: the assistant's message that the Request Type has been updated is
\* appended to the chat history only when the store accepted the update.
C33_SaidUpdatedOnlyWhenStored ==
    [][ SaidUpdated
          => /\ Len(TypeUpdates) = 1
             /\ TypeUpdates[1].ok
             /\ airtable'.Request_Type = TypeUpdates[1].value ]_vars

(***************************************************************************)
(* Claims about the ticket of a session that left the form (Spec)          *)
(***************************************************************************)
\* The store holds the session's ticket and the session holds its record id.
TicketCreated ==
    /\ airtable.exists
    /\ "record_id" \in session_keys
    /\ record_id = airtable.id

\* C34: a session on the chat page or on the confirmation page has a ticket
\* record in the store and holds its record id.
C34_NoPageWithoutTicket == page \in {2, 3} => TicketCreated

\* C35: on the confirmation page the Request Type the store holds for the
\* session's ticket is one of the four categories, whatever label was chosen
\* and whatever chat turns led there.
C35_FinalTypeIsCategory ==
    (page = 3 /\ TicketCreated) => airtable.Request_Type \in Categories

\* A "yes" turn's update of the Request Type that the store accepted.
AcceptedTypeUpdate(i) == i \in UpdatesOf("Request_Type") /\ airtable_calls[i].ok

\* C35, as amended: on the confirmation page the Request Type the store holds
\* for the session's ticket is the label chosen on the form or a label that an
\* accepted "yes" update wrote; it is one of the four categories or the unsure
\* sentinel, and it is the sentinel only if the sentinel was chosen on the form
\* and no "yes" update was accepted (a "no" turn, or a refused update).
C35_FinalTypeIsCategoryOrChosenSentinel ==
    (page = 3 /\ airtable.exists)
      => /\ \/ airtable.Request_Type = request_type
            \/ \E i \in 1..Len(airtable_calls) :
                  AcceptedTypeUpdate(i) /\ airtable_calls[i].value = airtable.Request_Type
         /\ airtable.Request_Type \in Categories \cup {USER_UNSURE}
         /\ airtable.Request_Type \notin Categories
               => /\ request_type = USER_UNSURE
                  /\ \A i \in 1..Len(airtable_calls) : ~AcceptedTypeUpdate(i)

\* C35 witness: a ticket filed under the unsure sentinel reached the
\* confirmation page through a "no" turn and is still filed under the sentinel.
C35_Witness ==
    /\ page = 3 /\ airtable.exists
    /\ request_type = USER_UNSURE
    /\ last_turn.kind = "chat" /\ last_turn.intent = "no"
    /\ airtable.Request_Type = USER_UNSURE

\* The step ran master_llm and master_flow_orchestrator for a ticket filed under
\* the unsure sentinel, and master_llm returned a result.
UnsureClassified ==
    /\ last_turn'.master_llm_calls = 1
    /\ ~last_call'.raised
    /\ last_call'.chosen = USER_UNSURE

\* C36: for a ticket filed under the unsure sentinel master_flow_orchestrator
\* never decides COMPLETE on a result of master_llm, so the session reaches the
\* confirmation page only through a "yes" or a "no" chat turn.
C36_UnsureNeverCompletes ==
    [][ /\ UnsureClassified
              => /\ last_call'.result.result # USER_UNSURE
                 /\ last_call'.flow.action \in {"RETRY", "CHATLLM"}
        /\ (request_type' = USER_UNSURE /\ page # 3 /\ page' = 3)
              => (ChatStep("yes") \/ ChatStep("no")) ]_vars

\* C36 witness: a ticket filed under the unsure sentinel was classified twice,
\* each time with the decision to go on chatting, and reached the confirmation
\* page through a "yes" turn.
C36_Witness ==
    /\ request_type = USER_UNSURE /\ page = 3
    /\ last_turn.kind = "chat" /\ last_turn.intent = "yes"
    /\ history.results = 2
    /\ last_call.chosen = USER_UNSURE /\ last_call.flow.action = "CHATLLM"

(***************************************************************************)
(* Claims about the shape of the chat history (Spec)                       *)
(***************************************************************************)
\* The role the i-th entry of an alternating chat history has.
RoleAt(i) == IF i % 2 = 1 THEN "assistant" ELSE "user"

\* C37: on the chat page the chat history starts with an assistant message and
\* alternates assistant / user / assistant: after every script run each user
\* message is followed by exactly one assistant message, also when the turn's
\* classification failed.
C37_ChatHistoryAlternates ==
    (page = 2 /\ "chat_history" \in session_keys)
      => /\ Len(chat_history) % 2 = 1
         /\ \A i \in 1..Len(chat_history) : chat_history[i].role = RoleAt(i)

(***************************************************************************)
(* Claims about queries without keywords (SpecKeyword)                     *)
(***************************************************************************)
\* rag_retrieve_keyword was called on an existing database.
KeywordCalled == pc = "keyword_done" /\ env.db_exists

\* C38: on an existing database rag_retrieve_keyword returns a list for every
\* query text and raises nothing; for a query without a word longer than two
\* characters the list is empty.
C38_KeywordReaderTotal ==
    KeywordCalled
      => /\ ~future_keyword.outcome.raised
         /\ tokenize(env.words) = << >> => future_keyword.outcome.chunks = << >>
====
